---- MODULE Spec2Model ----
(***************************************************************************)
(* PulseUI: the component tree (core/component.py, core/window.py) and the *)
(* animation scheduler (animation/animator.py, animation/easing.py).       *)
(*                                                                         *)
(* Every public method is one action.  A method that recurses over the     *)
(* children (update, set_context) is computed by a RECURSIVE operator that *)
(* threads the mutated fields through the traversal in the code's order.   *)
(* A traversal that re-enters a component that is still on its own call    *)
(* stack never ends in the code; Python ends it with RecursionError, and   *)
(* the operators stop there with raised = TRUE, keeping the writes made    *)
(* before the error (the writes of the repeated laps change nothing).      *)
(***************************************************************************)
EXTENDS Integers, Sequences, FiniteSets, TLC

\* ------------------------------------------------------------------ bounds
\* components that exist (constructed, fresh) at the start
NumComp == 3
\* total number of entries over all children lists (tree specification)
MaxLinks == 2
\* components and links the lifecycle specification works on
LifeComp == 2
LifeLinks == 1
\* Animation objects ever created, and the last reading of the clock
MaxAnims == 2
MaxTime == 2
\* events pygame delivers over a run of the application
MaxEvents == 2
\* children of a Row or Column; children and columns of a Grid
MaxKids == 3
GridKids == 7
GridCols == 3
\* children of a container that is changed after its mount
RelayoutKids == 2
\* children of a container that holds a nested container, and of the nested one
NestedKids == 2
\* Animation.update calls on the animation between float values
MaxWrites == 3

Comp == 1..NumComp
None == 0
\* the one Context the Application creates and hands to its Window
WindowContext == "window_context"
\* a component that was given no Context (self.context = None)
NoContext == "no_context"
Keys == {"k"}
Values == {"v"}
Absent == "absent"

\* the object that is animated
Targets == {"box"}
\* the property names animate() is called with: the targets hold "x" and no "y"
PropertyNames == {"x", "y"}
\* two more objects, instances of one class that defines __eq__ over its
\* attributes (a dataclass): distinct objects that compare equal while their
\* attributes agree
ValueObjects == {"card1", "card2"}
AllTargets == Targets \cup ValueObjects
\* the arguments animate() is called with
ToValues == {8}
Durations == {1, 2}
Easings == {"linear", "ease_in"}
Callbacks == {"none", "count", "spawn"}

\* the mappings animate_multiple() is called with, as the sequence of their
\* entries in iteration order
PropertyMaps ==
    {<<>>} \cup {<<[name |-> n, to |-> v]>> : n \in PropertyNames, v \in ToValues}
           \cup {<<[name |-> n, to |-> v], [name |-> m, to |-> v]>> :
                   <<n, m>> \in {<<"x", "y">>, <<"y", "x">>}, v \in ToValues}

VARIABLES
    \* Component fields
    parent, children, context, mounted, needs_update, state, props,
    \* Window.root_component, and whether the last set_root_component returned
    root_component, rootReturned,
    \* hook invocations: component_did_mount per component over its lifetime,
    \* component_will_unmount per component over its lifetime
    mountCalls, willUnmountCalls,
    \* update() has been called on the component at least once / mounted has been true
    everUpdated, everMounted,
    \* component_did_update invocations on the receiver of the last update() call
    didUpdateCalls,
    \* the last public call on the tree: its name, the component it was given,
    \* whether that component was in the receiver's children list, whether it raised
    lastCall,
    \* observer of the sequence "clean component, one mutation, update, update"
    scenario,
    \* time.time()
    now,
    \* every Animation object created so far, in creation order (a handle is its
    \* index), and Animator.animations as the list of those indices
    anims, animations,
    \* Animator.running
    running,
    \* the animated attributes of the target objects
    attrs,
    \* the last Animation.update call made on an already complete animation:
    \* whether there was one, what it returned, its writes to the target, its
    \* on_complete invocations
    stale,
    \* the last Animator call, and the observer of pause/resume/update
    animCall, pauseObs,
    \* the animations stop_all() or stop_animations_for_target() took off the list
    \* (as they were then), and those of them a later Animator.update() advanced
    stopObs,
    \* the arguments of the last Animator call and the handles it returned
    animArgs,
    \* a layout container (Row, Column, Grid) with its children
    layout,
    \* Application.run: the running flag, the position in the loop body, the
    \* events pygame holds, and what the last iteration did and drew
    app,
    \* the EventManager: callbacks, tracked input state, and what the last call did
    em,
    \* the last evaluation of an easing function
    easeCall,
    \* the class of each component: which lifecycle hook its subclass overrides
    \* with a body that calls self.set_state
    hooks

compVars == <<parent, children, context, mounted, needs_update, state, props,
              root_component, rootReturned, mountCalls, willUnmountCalls,
              everUpdated, everMounted, didUpdateCalls>>
animVars == <<now, anims, animations, running, attrs, stale, animCall, pauseObs>>
auxVars == <<em, easeCall, hooks>>
extVars == <<stopObs, animArgs, layout, app, auxVars>>
vars == <<compVars, lastCall, scenario, animVars, extVars>>

\* ------------------------------------------------------------------ helpers
Range(s) == {s[i] : i \in 1..Len(s)}

RECURSIVE SumLen(_, _)
SumLen(f, S) ==
    IF S = {} THEN 0
    ELSE LET x == CHOOSE y \in S : TRUE IN Len(f[x]) + SumLen(f, S \ {x})

TotalLinks == SumLen(children, Comp)

\* list.remove(x): drops the first occurrence
RemoveFirst(s, x) ==
    LET i == CHOOSE j \in 1..Len(s) : s[j] = x /\ \A h \in 1..(j-1) : s[h] # x
    IN SubSeq(s, 1, i-1) \o SubSeq(s, i+1, Len(s))

Idle == [phase |-> "idle", c |-> None, same |-> FALSE]

\* nothing has been taken off the active list by a stop call
NoStops == [snap |-> [i \in {} |-> 0], touched |-> {}]

Call(op, c, hit, raised) == [op |-> op, c |-> c, hit |-> hit, raised |-> raised]

\* ------------------------------------------------------------------ Component
\* Component.__init__
Init ==
    /\ parent = [c \in Comp |-> None]
    /\ children = [c \in Comp |-> <<>>]
    /\ context = [c \in Comp |-> NoContext]
    /\ mounted = [c \in Comp |-> FALSE]
    /\ needs_update = [c \in Comp |-> TRUE]
    /\ state = [c \in Comp |-> [k \in Keys |-> Absent]]
    /\ props = [c \in Comp |-> [k \in Keys |-> Absent]]
    /\ root_component = None
    /\ rootReturned = FALSE
    /\ mountCalls = [c \in Comp |-> 0]
    /\ willUnmountCalls = [c \in Comp |-> 0]
    /\ everUpdated = [c \in Comp |-> FALSE]
    /\ everMounted = [c \in Comp |-> FALSE]
    /\ didUpdateCalls = 0
    /\ lastCall = Call("init", None, FALSE, FALSE)
    /\ scenario = Idle
    /\ now = 0
    /\ anims = <<>>
    /\ animations = <<>>
    /\ running = TRUE
    /\ attrs = [t \in AllTargets |-> [a \in {"x"} |-> 0]]
    /\ stale = [seen |-> FALSE, ret |-> FALSE, wrote |-> 0, fired |-> 0]
    /\ animCall = "init"
    /\ pauseObs = [phase |-> "none", elapsed |-> [i \in {} |-> 0]]
    /\ stopObs = NoStops
    /\ animArgs = [op |-> "init"]
    /\ layout = [kind |-> "none"]
    /\ app = [running |-> FALSE, pc |-> "idle", events |-> <<>>, posted |-> 0,
              trace |-> <<>>, drawn |-> [root |-> None, state |-> Absent, x |-> 0],
              window |-> FALSE]
    /\ em = [callbacks |-> <<>>, mouse_position |-> <<0, 0>>,
             mouse_buttons |-> <<FALSE, FALSE, FALSE>>, keys_pressed |-> {},
             op |-> "init", event |-> [type |-> "none"], log |-> <<>>,
             raised |-> FALSE]
    /\ easeCall = [op |-> "init"]
    /\ hooks = [c \in Comp |-> "none"]

\* set_context that stops at the component it is called on
SetContextShallow(st, c, ctx, stack) == [st EXCEPT !.context[c] = ctx]

\* Component.set_context: self.context = context, then every child in list order
RECURSIVE SetContext(_, _, _, _), SetContextChildren(_, _, _, _, _)
SetContext(st, c, ctx, stack) ==
    LET s1 == [st EXCEPT !.context[c] = ctx]
    IN IF c \in stack THEN [s1 EXCEPT !.raised = TRUE]
       ELSE SetContextChildren(s1, children[c], 1, ctx, stack \cup {c})
SetContextChildren(st, cs, i, ctx, stack) ==
    IF st.raised \/ i > Len(cs) THEN st
    ELSE SetContextChildren(SetContext(st, cs[i], ctx, stack), cs, i + 1, ctx, stack)

\* Component.add_child
AddChild(p, c) ==
    LET r == IF context[p] # NoContext
             THEN SetContext([context |-> context, raised |-> FALSE], c, context[p], {})
             ELSE [context |-> context, raised |-> FALSE]
    IN /\ parent' = [parent EXCEPT ![c] = p]
       /\ context' = r.context
       /\ IF r.raised
          THEN UNCHANGED <<children, needs_update>>
          ELSE /\ children' = [children EXCEPT ![p] = Append(@, c)]
               /\ needs_update' = [needs_update EXCEPT ![p] = TRUE]
       /\ UNCHANGED <<mounted, state, props, root_component, rootReturned, mountCalls,
                      willUnmountCalls, everUpdated, everMounted, didUpdateCalls>>

\* Component.remove_child
RemoveChild(p, c) ==
    /\ IF c \in Range(children[p])
       THEN /\ parent' = [parent EXCEPT ![c] = None]
            /\ children' = [children EXCEPT ![p] = RemoveFirst(@, c)]
            /\ needs_update' = [needs_update EXCEPT ![p] = TRUE]
       ELSE UNCHANGED <<parent, children, needs_update>>
    /\ UNCHANGED <<context, mounted, state, props, root_component, rootReturned,
                   mountCalls, willUnmountCalls, everUpdated, everMounted,
                   didUpdateCalls>>

\* Window.set_root_component
SetRootComponent(c) ==
    LET r == SetContext([context |-> context, raised |-> FALSE], c, WindowContext, {})
    IN /\ root_component' = c
       /\ rootReturned' = ~r.raised
       /\ parent' = [parent EXCEPT ![c] = None]
       /\ context' = r.context
       /\ UNCHANGED <<children, mounted, needs_update, state, props, mountCalls,
                      willUnmountCalls, everUpdated, everMounted, didUpdateCalls>>

\* ------------------------------------------------------------------ lifecycle
\* Component.should_component_update
ShouldComponentUpdate(st, c) == st.needs_update[c]

\* the key and the value an overriding hook gives to set_state
HookKey == CHOOSE k \in Keys : TRUE
HookValue == CHOOSE v \in Values : TRUE

\* a lifecycle hook of c is invoked: the base class's body is `pass`; the body of
\* a subclass that overrides this hook calls self.set_state(k, v)
Hook(st, c, hook) ==
    LET called == [st EXCEPT !.log = Append(@, <<hook, c>>)]
    IN IF st.hooks[c] = hook
       THEN [called EXCEPT !.state[c][HookKey] = HookValue,
                           !.needs_update[c] = TRUE,
                           !.log = Append(@, <<"set_state", c>>)]
       ELSE called

\* update(), first block, with the assignment of the flag left out
MountStepNoFlag(st, c) ==
    IF ~st.mounted[c]
    THEN [Hook(st, c, "component_did_mount") EXCEPT !.mountCalls[c] = @ + 1]
    ELSE st

\* update(), first block, with the flag set before the hook is invoked
MountStepFlagFirst(st, c) ==
    IF ~st.mounted[c]
    THEN Hook([st EXCEPT !.mountCalls[c] = @ + 1, !.mounted[c] = TRUE,
                         !.everMounted[c] = TRUE,
                         !.log = Append(@, <<"mounted = True", c>>)],
              c, "component_did_mount")
    ELSE st

\* update(), first block: the mount hook, then mounted = True
MountStep(st, c) ==
    IF ~st.mounted[c]
    THEN [Hook(st, c, "component_did_mount") EXCEPT
              !.mountCalls[c] = @ + 1, !.mounted[c] = TRUE, !.everMounted[c] = TRUE,
              !.log = Append(@, <<"mounted = True", c>>)]
    ELSE st

\* update(), second block: the update hook, then needs_update = False
UpdateStep(st, c) ==
    IF ShouldComponentUpdate(st, c)
    THEN [Hook(st, c, "component_did_update") EXCEPT
              !.didUpdate[c] = @ + 1, !.needs_update[c] = FALSE,
              !.log = Append(@, <<"needs_update = False", c>>)]
    ELSE st

\* Component.update: the two blocks on self, then update() on every child in
\* list order
RECURSIVE ComponentUpdate(_, _, _), UpdateChildren(_, _, _, _)
ComponentUpdate(st, c, stack) ==
    LET s0 == [st EXCEPT !.everUpdated[c] = TRUE, !.order = Append(@, c)]
        s1 == MountStep(s0, c)
        s2 == UpdateStep(s1, c)
    IN IF c \in stack THEN [s2 EXCEPT !.raised = TRUE]
       ELSE UpdateChildren(s2, children[c], 1, stack \cup {c})
UpdateChildren(st, cs, i, stack) ==
    IF st.raised \/ i > Len(cs) THEN st
    ELSE UpdateChildren(ComponentUpdate(st, cs[i], stack), cs, i + 1, stack)

UpdateStart ==
    [mounted |-> mounted, needs_update |-> needs_update, mountCalls |-> mountCalls,
     everUpdated |-> everUpdated, everMounted |-> everMounted,
     didUpdate |-> [c \in Comp |-> 0], order |-> <<>>, raised |-> FALSE,
     state |-> state, hooks |-> hooks, log |-> <<>>]

\* a call of c.update() by the host (Window.update calls it on the root)
Update(c) ==
    LET r == ComponentUpdate(UpdateStart, c, {})
    IN /\ mounted' = r.mounted
       /\ needs_update' = r.needs_update
       /\ mountCalls' = r.mountCalls
       /\ everUpdated' = r.everUpdated
       /\ everMounted' = r.everMounted
       /\ didUpdateCalls' = r.didUpdate[c]
       /\ state' = r.state
       /\ UNCHANGED <<parent, children, context, props, root_component,
                      rootReturned, willUnmountCalls>>

\* what c.update() did, in order: the hooks it invoked, the flags it assigned,
\* the set_state calls the hooks made, each with its component
UpdateLog(c) == ComponentUpdate(UpdateStart, c, {}).log

\* c is an instance of a subclass of Component that overrides one hook with a
\* body that calls self.set_state; it is constructed but not yet updated
Subclass(c, hook) ==
    /\ ~everUpdated[c] /\ hooks[c] = "none"
    /\ hooks' = [hooks EXCEPT ![c] = hook]

\* the components whose update() ran during c.update(), in the order of the calls
UpdateOrder(c) == ComponentUpdate(UpdateStart, c, {}).order

\* c.update() overflows the call stack (a component below itself)
UpdateRaises(c) == ComponentUpdate(UpdateStart, c, {}).raised

\* a set_state that compares before it flags
SetStateDiffing(c, k, v) ==
    /\ state' = [state EXCEPT ![c][k] = v]
    /\ needs_update' = [needs_update EXCEPT ![c] = (@ \/ state[c][k] # v)]
    /\ UNCHANGED <<parent, children, context, mounted, props, root_component,
                   rootReturned, mountCalls, willUnmountCalls, everUpdated,
                   everMounted, didUpdateCalls>>

\* Component.set_state
SetState(c, k, v) ==
    /\ state' = [state EXCEPT ![c][k] = v]
    /\ needs_update' = [needs_update EXCEPT ![c] = TRUE]
    /\ UNCHANGED <<parent, children, context, mounted, props, root_component,
                   rootReturned, mountCalls, willUnmountCalls, everUpdated,
                   everMounted, didUpdateCalls>>

\* Component.set_prop
SetProp(c, k, v) ==
    /\ props' = [props EXCEPT ![c][k] = v]
    /\ needs_update' = [needs_update EXCEPT ![c] = TRUE]
    /\ UNCHANGED <<parent, children, context, mounted, state, root_component,
                   rootReturned, mountCalls, willUnmountCalls, everUpdated,
                   everMounted, didUpdateCalls>>

\* ------------------------------------------------------------------ Easing
Min(a, b) == IF a <= b THEN a ELSE b

\* Easing.linear at t = n/d, as the fraction <<numerator, denominator>>
linear(n, d) == <<n, d>>

\* Easing.ease_in_cubic at t = n/d
ease_in_cubic(n, d) == <<n * n * n, d * d * d>>

\* an Easing.apply whose default is not linear
EasingApplyDefaultCubic(name, n, d) ==
    IF name = "linear" THEN linear(n, d) ELSE ease_in_cubic(n, d)

\* Easing.apply: the named function, linear for a name FUNCTIONS does not hold
EasingApply(name, n, d) ==
    IF name = "ease_in" THEN ease_in_cubic(n, d) ELSE linear(n, d)

\* ------------------------------------------------------------------ Python floats
\* a Python float is an IEEE 754 double: (-1)^neg * m * 2^e, with m a natural
\* number of at most 53 bits, odd, or zero. A natural number is written in
\* limbs of twelve bits, the lowest first, the highest not zero
Base == 2 ^ 12

\* the limb sequences, and the floats
Limbs == Seq(Nat)
Floats == [neg : BOOLEAN, m : Limbs, e : Int]

Limb[a \in Limbs, i \in Nat] == IF i <= Len(a) THEN a[i] ELSE 0

LTrim[a \in Limbs] == IF a = <<>> \/ a[Len(a)] # 0 THEN a ELSE LTrim[SubSeq(a, 1, Len(a) - 1)]

LimbsOf[n \in Nat] == IF n = 0 THEN <<>> ELSE <<n % Base>> \o LimbsOf[n \div Base]

AddFrom[a \in Limbs, b \in Limbs, i \in Nat, carry \in Nat] ==
    IF i > Len(a) /\ i > Len(b) THEN LimbsOf[carry]
    ELSE LET sum == Limb[a, i] + Limb[b, i] + carry
         IN <<sum % Base>> \o AddFrom[a, b, i + 1, sum \div Base]

\* a + b
LAdd[a \in Limbs, b \in Limbs] == AddFrom[a, b, 1, 0]

SubFrom[a \in Limbs, b \in Limbs, i \in Nat, borrow \in Nat] ==
    IF i > Len(a) THEN <<>>
    ELSE LET diff == Limb[a, i] - Limb[b, i] - borrow
         IN <<diff % Base>> \o SubFrom[a, b, i + 1, IF diff < 0 THEN 1 ELSE 0]

\* a - b, for a >= b
LSub[a \in Limbs, b \in Limbs] == LTrim[SubFrom[a, b, 1, 0]]

LessAt[a \in Limbs, b \in Limbs, i \in Nat] ==
    IF i = 0 THEN FALSE
    ELSE IF a[i] # b[i] THEN a[i] < b[i]
    ELSE LessAt[a, b, i - 1]

\* a < b
LLess[a \in Limbs, b \in Limbs] == IF Len(a) # Len(b) THEN Len(a) < Len(b) ELSE LessAt[a, b, Len(a)]

MulSmallFrom[a \in Limbs, d \in Nat, i \in Nat, carry \in Nat] ==
    IF i > Len(a) THEN LimbsOf[carry]
    ELSE LET prod == a[i] * d + carry
         IN <<prod % Base>> \o MulSmallFrom[a, d, i + 1, prod \div Base]

\* a * d, for one limb d
LMulSmall[a \in Limbs, d \in Nat] == LTrim[MulSmallFrom[a, d, 1, 0]]

\* a * Base^q
ShiftLimbs[a \in Limbs, q \in Nat] == IF a = <<>> THEN <<>> ELSE [i \in 1..q |-> 0] \o a

MulFrom[a \in Limbs, b \in Limbs, i \in Nat] ==
    IF i > Len(b) THEN <<>>
    ELSE LAdd[ShiftLimbs[LMulSmall[a, b[i]], i - 1], MulFrom[a, b, i + 1]]

\* a * b
LMul[a \in Limbs, b \in Limbs] == LTrim[MulFrom[a, b, 1]]

\* <<a div d, a mod d>> for one limb d, by short division from the highest limb
DivSmallFrom[a \in Limbs, d \in Nat, i \in Nat, q \in Limbs, r \in Nat] ==
    IF i = 0 THEN <<LTrim[q], r>>
    ELSE LET cur == r * Base + a[i]
         IN DivSmallFrom[a, d, i - 1, <<cur \div d>> \o q, cur % d]

LDivSmall[a \in Limbs, d \in Nat] == DivSmallFrom[a, d, Len(a), <<>>, 0]

\* a * 2^k
ShiftLeft[a \in Limbs, k \in Nat] == ShiftLimbs[LMulSmall[a, 2 ^ (k % 12)], k \div 12]

\* a div 2^k
ShiftRight[a \in Limbs, k \in Nat] ==
    IF k \div 12 >= Len(a) THEN <<>>
    ELSE LDivSmall[SubSeq(a, k \div 12 + 1, Len(a)), 2 ^ (k % 12)][1]

\* the number of bits of a, for a not zero
BitLen[a \in Limbs] ==
    12 * (Len(a) - 1) + CHOOSE n \in 1..12 : 2 ^ (n - 1) <= a[Len(a)] /\ a[Len(a)] < 2 ^ n

\* the number of zero bits a ends with, for a not zero
LowZeros[a \in Limbs] ==
    LET i == CHOOSE j \in 1..Len(a) : a[j] # 0 /\ \A h \in 1..(j - 1) : a[h] = 0
    IN 12 * (i - 1) + CHOOSE r \in 0..11 : a[i] % (2 ^ r) = 0 /\ a[i] % (2 ^ (r + 1)) # 0

\* round to nearest, ties to even: the 53 highest bits of m, one more when the
\* rest is above the half, or is the half and the last kept bit is 1
RoundBits[m \in Limbs, e \in Int] ==
    IF m = <<>> \/ BitLen[m] <= 53 THEN <<m, e>>
    ELSE LET k == BitLen[m] - 53
             kept == ShiftRight[m, k]
             rest == LSub[m, ShiftLeft[kept, k]]
             half == ShiftLeft[<<1>>, k - 1]
             up == LLess[half, rest] \/ (rest = half /\ kept[1] % 2 = 1)
         IN <<IF up THEN LAdd[kept, <<1>>] ELSE kept, e + k>>

\* the double nearest to (-1)^neg * m * 2^e
Float[neg \in BOOLEAN, m \in Limbs, e \in Int] ==
    LET r == RoundBits[LTrim[m], e]
    IN IF r[1] = <<>> THEN [neg |-> neg, m |-> <<>>, e |-> 0]
       ELSE [neg |-> neg, m |-> ShiftRight[r[1], LowZeros[r[1]]],
             e |-> r[2] + LowZeros[r[1]]]

\* the double of n * 2^e, and of the whole number n
Dyadic[n \in Int, e \in Int] == Float[n < 0, LimbsOf[IF n < 0 THEN 0 - n ELSE n], e]

FromInt[n \in Int] == Dyadic[n, 0]

\* the double that float.hex() writes 0x1.<thirteen digits d>p<p>
Hex[d \in Limbs, p \in Int] ==
    Float[FALSE,
          <<d[11] * 256 + d[12] * 16 + d[13], d[8] * 256 + d[9] * 16 + d[10],
            d[5] * 256 + d[6] * 16 + d[7], d[2] * 256 + d[3] * 16 + d[4], 16 + d[1]>>,
          p - 52]

FNeg[x \in Floats] == [x EXCEPT !.neg = ~@]

\* x + y
FAdd[x \in Floats, y \in Floats] ==
    LET e == Min(x.e, y.e)
        mx == ShiftLeft[x.m, x.e - e]
        my == ShiftLeft[y.m, y.e - e]
    IN IF x.m = <<>> /\ y.m = <<>> THEN Float[x.neg /\ y.neg, <<>>, 0]
       ELSE IF x.m = <<>> THEN y
       ELSE IF y.m = <<>> THEN x
       ELSE IF x.neg = y.neg THEN Float[x.neg, LAdd[mx, my], e]
       ELSE IF LLess[mx, my] THEN Float[y.neg, LSub[my, mx], e]
       ELSE IF LLess[my, mx] THEN Float[x.neg, LSub[mx, my], e]
       ELSE Float[FALSE, <<>>, 0]

\* x - y
FSub[x \in Floats, y \in Floats] == FAdd[x, FNeg[y]]

\* x * y
FMul[x \in Floats, y \in Floats] == Float[x.neg # y.neg, LMul[x.m, y.m], x.e + y.e]

\* x / y, for a y whose m is one limb (2, 2.75): 72 more bits of quotient than
\* x has, and one last bit that says whether a remainder was left
FDiv[x \in Floats, y \in Floats] ==
    IF x.m = <<>> THEN Float[x.neg # y.neg, <<>>, 0]
    ELSE LET qr == LDivSmall[ShiftLeft[x.m, 72], y.m[1]]
         IN Float[x.neg # y.neg,
                  LAdd[ShiftLeft[qr[1], 1], LimbsOf[IF qr[2] = 0 THEN 0 ELSE 1]],
                  x.e - y.e - 73]

\* x < y
FLess[x \in Floats, y \in Floats] == FSub[x, y].neg /\ FSub[x, y].m # <<>>

\* x == y (0.0 == -0.0)
FEq[x \in Floats, y \in Floats] == (x.m = <<>> /\ y.m = <<>>) \/ x = y

\* pow(x, n) for a whole n >= 0, by the products that are exact for the bases
\* it is given here (0, 1, -1, 2)
FPow[x \in Floats, n \in Nat] == IF n = 0 THEN FromInt[1] ELSE FMul[x, FPow[x, n - 1]]

\* math.pi
Pi == Hex[<<9, 2, 1, 15, 11, 5, 4, 4, 4, 2, 13, 1, 8>>, 1]

\* math.cos at the arguments the sine family reaches for t = 0 and t = 1: 0,
\* math.pi / 2 and math.pi
Cos[x \in Floats] ==
    IF x.m = <<>> THEN FromInt[1]
    ELSE IF x = FDiv[Pi, FromInt[2]]
    THEN Hex[<<1, 10, 6, 2, 6, 3, 3, 1, 4, 5, 12, 0, 7>>, 0 - 54]
    ELSE FromInt[0 - 1]

\* math.sin at 0 and at math.pi / 2
Sin[x \in Floats] == IF x.m = <<>> THEN x ELSE FromInt[1]

\* math.pow(2, x) at x = 0, the only exponent the expo family reaches past its
\* guards for t = 0 and t = 1
Pow2[x \in Floats] == FromInt[1]

\* the expressions of the easing functions as terms: the argument t, the number
\* literals (a whole number; n * 2^e for a decimal that is exact in binary; the
\* float.hex() digits for one that is not), and Python's operators and calls
Arg == <<"arg">>
Lit(n) == <<"int", n>>
Dec(n, e) == <<"dyadic", n, e>>
HexLit(d, p) == <<"hex", d, p>>
MathPi == <<"pi">>
Neg(a) == <<"neg", a>>
Add(a, b) == <<"add", a, b>>
Sub(a, b) == <<"sub", a, b>>
Mul(a, b) == <<"mul", a, b>>
Div(a, b) == <<"div", a, b>>
Power(a, n) == <<"pow", a, n>>
PowerOfTwo(a) == <<"pow2", a>>
MathCos(a) == <<"cos", a>>
MathSin(a) == <<"sin", a>>
Less(a, b) == <<"less", a, b>>
Equal(a, b) == <<"eq", a, b>>
IfElse(c, a, b) == <<"if", c, a, b>>
BounceOut(a) == <<"bounce_out", a>>
WithArg(f, a) == <<"call", f, a>>
Val(v) == <<"val", v>>

\* Easing.bounce_out
bounce_out ==
    LET n1 == Dec(121, 0 - 4)
        d1 == Dec(11, 0 - 2)
        t2 == Sub(Arg, Div(Dec(3, 0 - 1), d1))
        t3 == Sub(Arg, Div(Dec(9, 0 - 2), d1))
        t4 == Sub(Arg, Div(Dec(21, 0 - 3), d1))
    IN IfElse(Less(Arg, Div(Lit(1), d1)), Mul(Mul(n1, Arg), Arg),
       IfElse(Less(Arg, Div(Lit(2), d1)), Add(Mul(Mul(n1, t2), t2), Dec(3, 0 - 2)),
       IfElse(Less(Arg, Div(Dec(5, 0 - 1), d1)),
              Add(Mul(Mul(n1, t3), t3), Dec(15, 0 - 4)),
              Add(Mul(Mul(n1, t4), t4), Dec(63, 0 - 6)))))

\* the body of the function f of class Easing, f its name in the class
EasingBody(f) ==
    LET half == Dec(1, 0 - 1)
        \* -2 * t + 2
        back == Add(Mul(Lit(0 - 2), Arg), Lit(2))
        c1 == HexLit(<<11, 3, 9, 10, 11, 15, 3, 3, 8, 7, 1, 6, 1>>, 0)
        c3 == Add(c1, Lit(1))
        c2 == Mul(c1, HexLit(<<8, 6, 6, 6, 6, 6, 6, 6, 6, 6, 6, 6, 6>>, 0))
    IN CASE f = "linear" -> Arg
         [] f = "ease_in_sine" -> Sub(Lit(1), MathCos(Div(Mul(Arg, MathPi), Lit(2))))
         [] f = "ease_out_sine" -> MathSin(Div(Mul(Arg, MathPi), Lit(2)))
         [] f = "ease_in_out_sine" ->
            Div(Neg(Sub(MathCos(Mul(MathPi, Arg)), Lit(1))), Lit(2))
         [] f = "ease_in_quad" -> Mul(Arg, Arg)
         [] f = "ease_out_quad" -> Sub(Lit(1), Mul(Sub(Lit(1), Arg), Sub(Lit(1), Arg)))
         [] f = "ease_in_out_quad" ->
            IfElse(Less(Arg, half), Mul(Mul(Lit(2), Arg), Arg),
                   Sub(Lit(1), Div(Power(back, 2), Lit(2))))
         [] f = "ease_in_cubic" -> Mul(Mul(Arg, Arg), Arg)
         [] f = "ease_out_cubic" -> Sub(Lit(1), Power(Sub(Lit(1), Arg), 3))
         [] f = "ease_in_out_cubic" ->
            IfElse(Less(Arg, half), Mul(Mul(Mul(Lit(4), Arg), Arg), Arg),
                   Sub(Lit(1), Div(Power(back, 3), Lit(2))))
         [] f = "ease_in_quart" -> Mul(Mul(Mul(Arg, Arg), Arg), Arg)
         [] f = "ease_out_quart" -> Sub(Lit(1), Power(Sub(Lit(1), Arg), 4))
         [] f = "ease_in_out_quart" ->
            IfElse(Less(Arg, half), Mul(Mul(Mul(Mul(Lit(8), Arg), Arg), Arg), Arg),
                   Sub(Lit(1), Div(Power(back, 4), Lit(2))))
         [] f = "ease_in_expo" ->
            IfElse(Equal(Arg, Lit(0)), Lit(0),
                   PowerOfTwo(Mul(Lit(10), Sub(Arg, Lit(1)))))
         [] f = "ease_out_expo" ->
            IfElse(Equal(Arg, Lit(1)), Lit(1),
                   Sub(Lit(1), PowerOfTwo(Mul(Lit(0 - 10), Arg))))
         [] f = "ease_in_out_expo" ->
            IfElse(Equal(Arg, Lit(0)), Lit(0),
            IfElse(Equal(Arg, Lit(1)), Lit(1),
            IfElse(Less(Arg, half),
                   Div(PowerOfTwo(Sub(Mul(Lit(20), Arg), Lit(10))), Lit(2)),
                   Div(Sub(Lit(2), PowerOfTwo(Add(Mul(Lit(0 - 20), Arg), Lit(10)))),
                       Lit(2)))))
         [] f = "ease_in_back" ->
            Sub(Mul(Mul(Mul(c3, Arg), Arg), Arg), Mul(Mul(c1, Arg), Arg))
         [] f = "ease_out_back" ->
            Add(Add(Lit(1), Mul(c3, Power(Sub(Arg, Lit(1)), 3))),
                Mul(c1, Power(Sub(Arg, Lit(1)), 2)))
         [] f = "ease_in_out_back" ->
            IfElse(Less(Arg, half),
                   Div(Mul(Power(Mul(Lit(2), Arg), 2),
                           Sub(Mul(Mul(Add(c2, Lit(1)), Lit(2)), Arg), c2)), Lit(2)),
                   Div(Add(Mul(Power(Sub(Mul(Lit(2), Arg), Lit(2)), 2),
                               Add(Mul(Add(c2, Lit(1)), Sub(Mul(Arg, Lit(2)), Lit(2))),
                                   c2)),
                           Lit(2)), Lit(2)))
         [] f = "bounce_out" -> bounce_out
         [] f = "bounce_in" -> Sub(Lit(1), BounceOut(Sub(Lit(1), Arg)))
         [] f = "bounce_in_out" ->
            IfElse(Less(Arg, half),
                   Div(Sub(Lit(1), BounceOut(Sub(Lit(1), Mul(Lit(2), Arg)))), Lit(2)),
                   Div(Add(Lit(1), BounceOut(Sub(Mul(Lit(2), Arg), Lit(1)))), Lit(2)))

\* Easing.FUNCTIONS: the registered names and the function each one stands for
FUNCTIONS ==
    [linear |-> "linear", ease_in |-> "ease_in_cubic", ease_out |-> "ease_out_cubic",
     ease_in_out |-> "ease_in_out_cubic", ease_in_sine |-> "ease_in_sine",
     ease_out_sine |-> "ease_out_sine", ease_in_out_sine |-> "ease_in_out_sine",
     ease_in_quad |-> "ease_in_quad", ease_out_quad |-> "ease_out_quad",
     ease_in_out_quad |-> "ease_in_out_quad", ease_in_cubic |-> "ease_in_cubic",
     ease_out_cubic |-> "ease_out_cubic", ease_in_out_cubic |-> "ease_in_out_cubic",
     ease_in_quart |-> "ease_in_quart", ease_out_quart |-> "ease_out_quart",
     ease_in_out_quart |-> "ease_in_out_quart", ease_in_expo |-> "ease_in_expo",
     ease_out_expo |-> "ease_out_expo", ease_in_out_expo |-> "ease_in_out_expo",
     ease_in_back |-> "ease_in_back", ease_out_back |-> "ease_out_back",
     ease_in_out_back |-> "ease_in_out_back", bounce |-> "bounce_out",
     bounce_in |-> "bounce_in", bounce_out |-> "bounce_out",
     bounce_in_out |-> "bounce_in_out"]

\* the value Python computes for the term x when the argument t is the float
\* t: every operation on floats is rounded, in the order the expression gives
RECURSIVE Eval(_, _)
Eval(x, t) ==
    CASE x[1] = "arg" -> t
      [] x[1] = "int" -> FromInt[x[2]]
      [] x[1] = "dyadic" -> Dyadic[x[2], x[3]]
      [] x[1] = "hex" -> Hex[x[2], x[3]]
      [] x[1] = "pi" -> Pi
      [] x[1] = "neg" -> FNeg[Eval(x[2], t)]
      [] x[1] = "add" -> FAdd[Eval(x[2], t), Eval(x[3], t)]
      [] x[1] = "sub" -> FSub[Eval(x[2], t), Eval(x[3], t)]
      [] x[1] = "mul" -> FMul[Eval(x[2], t), Eval(x[3], t)]
      [] x[1] = "div" -> FDiv[Eval(x[2], t), Eval(x[3], t)]
      [] x[1] = "pow" -> FPow[Eval(x[2], t), x[3]]
      [] x[1] = "pow2" -> Pow2[Eval(x[2], t)]
      [] x[1] = "cos" -> Cos[Eval(x[2], t)]
      [] x[1] = "sin" -> Sin[Eval(x[2], t)]
      [] x[1] = "less" -> FLess[Eval(x[2], t), Eval(x[3], t)]
      [] x[1] = "eq" -> FEq[Eval(x[2], t), Eval(x[3], t)]
      [] x[1] = "if" -> IF Eval(x[2], t) THEN Eval(x[3], t) ELSE Eval(x[4], t)
      [] x[1] = "bounce_out" -> Eval(bounce_out, Eval(x[2], t))
      [] x[1] = "call" -> Eval(x[2], Eval(x[3], t))
      [] x[1] = "val" -> x[2]
      [] x[1] = "pair" -> <<Eval(x[2], t), Eval(x[3], t)>>

\* the function f of class Easing called with the float t
EasingAt(f, t) == Eval(EasingBody(f), t)

\* the two ends of an animation's progress, 0.0 and 1.0
Ends == {FromInt[0], FromInt[1]}

\* Easing.get_function: cls.FUNCTIONS.get(easing_name, cls.linear)
GetFunction(easing_name) ==
    IF easing_name \in DOMAIN FUNCTIONS THEN FUNCTIONS[easing_name] ELSE "linear"

\* Easing.apply: the function the name gets, called with t
Apply(easing_name, t) ==
    EasingAt(IF easing_name \in DOMAIN FUNCTIONS THEN FUNCTIONS[easing_name]
             ELSE "linear", t)

\* names no function is registered under
UnknownEasings == {"wobble", ""}

\* Easing.apply(easing_name, t) is called
ApplyEasing(easing_name, t) ==
    easeCall' = [op |-> "apply", name |-> easing_name, t |-> t,
                 function |-> "", result |-> Apply(easing_name, t)]

\* f = Easing.get_function(easing_name) is called, then f(t)
GetFunctionCall(easing_name, t) ==
    easeCall' = [op |-> "get_function", name |-> easing_name, t |-> t,
                 function |-> GetFunction(easing_name),
                 result |-> EasingAt(GetFunction(easing_name), t)]

\* ------------------------------------------------------------------ Animation
\* Animation.__init__ (start_time = time.time(), is_complete = False); the last
\* five fields observe the object: on_complete invocations, assignments of True to
\* is_complete, whether an update has computed progress >= 1.0, whether a
\* completion callback created it during Animator.update(), and whether that same
\* update() call advanced it
NewAnimation(target, property_name, start_value, end_value, duration, easing, on_complete, t, born) ==
    [target |-> target, property_name |-> property_name, start_value |-> start_value,
     end_value |-> end_value, duration |-> duration, easing |-> easing,
     on_complete |-> on_complete, start_time |-> t, is_complete |-> FALSE,
     cbCalls |-> 0, flagSets |-> 0, sawDone |-> FALSE, bornInUpdate |-> born,
     advancedAtBirth |-> FALSE]

\* hasattr(target, property_name)
HasAttr(at, target, property_name) == property_name \in DOMAIN at[target]

\* getattr(target, property_name, 0.0)
GetAttr(at, target, property_name) ==
    IF HasAttr(at, target, property_name) THEN at[target][property_name] ELSE 0

\* what Animator.animate returns: the Animation it creates
AnimateReturn(st) == Len(st.anims) + 1

\* an animate that starts from 0.0 whatever the target holds
AnimateInFromZero(st, target, property_name, to_value, duration, easing, on_complete) ==
    LET a == NewAnimation(target, property_name, 0, to_value,
                          duration, easing, on_complete, now, st.inUpdate)
    IN [st EXCEPT !.anims = Append(@, a),
                  !.animations = Append(@, AnimateReturn(st))]

\* the list self.animations names: the list object Animator.update iterates,
\* until a callback inside the iteration rebinds the attribute to a new list
Bound(st) == IF st.rebound THEN st.attr ELSE st.animations

\* a change of the list self.animations names
SetBound(st, l) ==
    IF st.rebound THEN [st EXCEPT !.attr = l] ELSE [st EXCEPT !.animations = l]

\* Animator.animate, on the record st of the fields a call can change
AnimateIn(st, target, property_name, to_value, duration, easing, on_complete) ==
    LET a == NewAnimation(target, property_name,
                          GetAttr(st.attrs, target, property_name), to_value,
                          duration, easing, on_complete, now, st.inUpdate)
    IN SetBound([st EXCEPT !.anims = Append(@, a)],
                Append(Bound(st), AnimateReturn(st)))

\* Animator.stop_all called by a completion callback: the list is cleared in place
StopAllIn(st) ==
    SetBound([st EXCEPT !.cancelled = @ \cup Range(Bound(st))], <<>>)

\* Animator.stop_animations_for_target called by a completion callback: the
\* attribute is rebound to a new, filtered list
StopAnimationsForTargetIn(st, target) ==
    LET ne(a, b) == IF a \in ValueObjects /\ b \in ValueObjects
                    THEN st.attrs[a] # st.attrs[b] ELSE a # b
        l == SelectSeq(Bound(st), LAMBDA i : ne(st.anims[i].target, target))
    IN [st EXCEPT !.cancelled = @ \cup (Range(Bound(st)) \ Range(l)),
                  !.attr = l, !.rebound = TRUE]

\* the completion callbacks the model registers: "count" returns at once,
\* "spawn" starts the return leg on the same property as Animator.pulse does,
\* "chain" starts it with a callback of its own as Transition.shake does,
\* "stop_all" and "stop_target" call the Animator's cancellations
OnComplete(st, id) ==
    LET a == st.anims[id]
        s1 == [st EXCEPT !.anims[id].cbCalls = @ + 1, !.fired = @ + 1]
    IN CASE a.on_complete = "spawn" ->
              AnimateIn(s1, a.target, a.property_name, a.start_value, a.duration,
                        a.easing, "none")
         [] a.on_complete = "chain" ->
              AnimateIn(s1, a.target, a.property_name, a.start_value, a.duration,
                        a.easing, "count")
         [] a.on_complete = "stop_all" -> StopAllIn(s1)
         [] a.on_complete = "stop_target" -> StopAnimationsForTargetIn(s1, a.target)
         [] OTHER -> s1

\* Animation.update, last block, with the assignment of the flag left out
CompleteStepNoFlag(st, id) ==
    IF st.anims[id].on_complete # "none" THEN OnComplete(st, id) ELSE st

\* Animation.update, last block (reached when progress >= 1.0)
CompleteStep(st, id) ==
    LET s1 == [st EXCEPT !.anims[id].is_complete = TRUE, !.anims[id].flagSets = @ + 1]
    IN IF s1.anims[id].on_complete # "none" THEN OnComplete(s1, id) ELSE s1

\* Animation.update after its first test: elapsed, progress, easing, the write,
\* the completion; ret is the value returned
AdvanceBody(st, id) ==
    LET a == st.anims[id]
        elapsed == now - a.start_time
        \* progress = min(elapsed / duration, 1.0), kept as a fraction of duration;
        \* the division raises ZeroDivisionError when duration is 0
        progress == Min(elapsed, a.duration)
        eased == EasingApply(a.easing, progress, a.duration)
        current_value == a.start_value
                         + ((a.end_value - a.start_value) * eased[1]) \div eased[2]
        s1 == IF HasAttr(st.attrs, a.target, a.property_name)
              THEN [st EXCEPT !.attrs[a.target][a.property_name] = current_value,
                              !.wrote = @ + 1]
              ELSE st
        s2 == IF progress >= a.duration
              THEN CompleteStep([s1 EXCEPT !.anims[id].sawDone = TRUE], id)
              ELSE s1
    IN IF a.duration = 0 THEN [st EXCEPT !.raised = TRUE]
       ELSE [s2 EXCEPT !.ret = ~s2.anims[id].is_complete]

\* an Animation.update that gives up when the target lacks the property
AnimationUpdateNeedsAttr(st, id) ==
    IF st.anims[id].is_complete
    THEN [st EXCEPT !.ret = FALSE]
    ELSE IF HasAttr(st.attrs, st.anims[id].target, st.anims[id].property_name)
    THEN AdvanceBody(st, id)
    ELSE [st EXCEPT !.ret = TRUE]

\* Animation.update without its first test
AnimationUpdateNoGuard(st, id) == AdvanceBody(st, id)

\* Animation.update
AnimationUpdate(st, id) ==
    IF st.anims[id].is_complete
    THEN [st EXCEPT !.ret = FALSE]
    ELSE AdvanceBody(st, id)

\* one call of Animation.update with its observation: what a call on an already
\* complete animation returned, wrote and fired
Advance(st, id) ==
    LET was == st.anims[id].is_complete
        s0 == [st EXCEPT !.wrote = 0, !.fired = 0, !.advanced = @ \cup {id},
                         !.after = @ \cup ({id} \cap st.cancelled)]
        s1 == AnimationUpdate(s0, id)
        s2 == IF s1.anims[id].bornInUpdate /\ s1.inUpdate
                 /\ id > s1.firstNew
              THEN [s1 EXCEPT !.anims[id].advancedAtBirth = TRUE]
              ELSE s1
    IN IF was
       THEN [s2 EXCEPT !.stale = [seen |-> TRUE, ret |-> s2.ret, wrote |-> s2.wrote,
                                  fired |-> s2.fired]]
       ELSE s2

\* the values an animation runs between, as Python writes them: 0, 8, 10.0, 0.1
FloatValues == {Lit(0), Lit(8), Lit(10), HexLit(<<9, 9, 9, 9, 9, 9, 9, 9, 9, 9, 9, 9, 10>>, -4)}

\* progress = min(elapsed / self.duration, 1.0)
Progress(elapsed, duration) ==
    IfElse(Less(Lit(1), Div(Lit(elapsed), Lit(duration))), Lit(1),
           Div(Lit(elapsed), Lit(duration)))

\* current_value = self.start_value + (self.end_value - self.start_value) * eased_progress
CurrentValue(start_value, end_value) == Add(start_value, Mul(Sub(end_value, start_value), Arg))

\* Animator.animate with float values: the Animation it creates; written is what
\* its updates wrote to the target since
FloatAnimate(start_value, end_value, duration, easing) ==
    easeCall' = [op |-> "animate", start_value |-> start_value, end_value |-> end_value,
                 duration |-> duration, easing |-> easing, elapsed |-> 0,
                 is_complete |-> FALSE, written |-> <<>>]

\* Animation.update with float values, dt after the last call (or the creation):
\* progress, eased_progress = Easing.apply(self.easing, progress), current_value,
\* the write, and the completion when progress >= 1.0
FloatUpdate(dt) ==
    /\ easeCall.op \in {"animate", "update"}
    /\ ~easeCall.is_complete
    /\ Len(easeCall.written) < MaxWrites
    /\ LET progress == Progress(easeCall.elapsed + dt, easeCall.duration)
           eased_progress == WithArg(EasingBody(GetFunction(easeCall.easing)), progress)
           current_value == WithArg(CurrentValue(easeCall.start_value,
                                                 easeCall.end_value), eased_progress)
           r == Eval(<<"pair", current_value, Less(progress, Lit(1))>>, FromInt[0])
       IN easeCall' = [easeCall EXCEPT !.op = "update", !.elapsed = @ + dt,
                                       !.written = Append(@, r[1]),
                                       !.is_complete = ~r[2]]

\* the x of the target when shake is called: 0, 5, 8, 0.1
ShakeValues ==
    {FromInt[0], FromInt[5], FromInt[8], Hex[<<9, 9, 9, 9, 9, 9, 9, 9, 9, 9, 9, 9, 10>>, -4]}

\* Transition.shake: the value the k-th of its four animations runs to, and its
\* easing
ShakeTo(k, original_x, intensity) ==
    IF k <= 2 THEN Add(Val(original_x), intensity)
    ELSE IF k = 3 THEN Sub(Val(original_x), intensity)
    ELSE Val(original_x)

ShakeEasing(k) == IF k <= 3 THEN "ease_in_out" ELSE "ease_out"

\* Transition.shake(target, intensity, on_complete=cb) on a target whose x is x:
\* original_x is read, and the first animation is created from the current x
Shake(x, intensity) ==
    easeCall' = [op |-> "shake", original_x |-> x, intensity |-> intensity,
                 x |-> x, step |-> 1, start_value |-> x,
                 quarters |-> 0, active |-> 1, created |-> 1, cbCalls |-> 0]

\* the value an animation writes, and the value the animation its callback
\* creates from that value writes at progress 0 in the same pass
WriteAndBirth(current_value, born) == <<"pair", current_value, WithArg(born, current_value)>>

\* one pass of Animator.update over the running animation of the shake: its
\* current_value at q quarters of its duration, and the first write of the next
ShakePass(start_value, to, next_to, easing_func, next_func, q) ==
    WriteAndBirth(WithArg(CurrentValue(Val(start_value), to), WithArg(easing_func, Dec(q, -2))),
                  Add(Arg, Mul(Sub(next_to, Arg), WithArg(next_func, Lit(0)))))

\* what the pass leaves: before 4 quarters the animation has written its value;
\* at 4 quarters it completes and its callback creates the next one from the x
\* just written (the last one calls on_complete)
ShakeAfter(q, k, r) ==
    easeCall' =
        IF q < 4
        THEN [easeCall EXCEPT !.op = "update", !.x = r[1], !.quarters = q]
        ELSE IF k < 4
        THEN [easeCall EXCEPT !.op = "update", !.x = r[2], !.step = k + 1,
                              !.start_value = r[1], !.quarters = 0, !.created = @ + 1]
        ELSE [easeCall EXCEPT !.op = "update", !.x = r[1], !.step = 5,
                              !.quarters = 0, !.active = 0, !.cbCalls = @ + 1]

\* Animator.update while the shake runs, the clock at q quarters of the running
\* animation's duration; easing_func is Easing.FUNCTIONS.get for each animation
ShakeUpdateWith(q, easing_func) ==
    /\ easeCall.op \in {"shake", "update"}
    /\ easeCall.step <= 4
    /\ q >= easeCall.quarters
    /\ ShakeAfter(q, easeCall.step,
                  Eval(ShakePass(easeCall.start_value,
                                 ShakeTo(easeCall.step, easeCall.original_x,
                                         easeCall.intensity),
                                 ShakeTo(easeCall.step + 1, easeCall.original_x,
                                         easeCall.intensity),
                                 easing_func[easeCall.step],
                                 easing_func[easeCall.step + 1], q),
                       FromInt[0]))

ShakeUpdate(q) ==
    ShakeUpdateWith(q, [k \in 1..5 |-> EasingBody(GetFunction(ShakeEasing(k)))])

\* ------------------------------------------------------------------ Animator
\* [anim for anim in self.animations if anim.update()] over a copy of the list
RECURSIVE UpdatePassSnapshot(_, _, _)
UpdatePassSnapshot(st, i, kept) ==
    LET old == animations
    IN IF i > Len(old) THEN [st EXCEPT !.animations = kept]
       ELSE LET s1 == Advance(st, old[i])
            IN UpdatePassSnapshot(s1, i + 1, IF s1.ret THEN Append(kept, old[i]) ELSE kept)

\* the comprehension without its filter
RECURSIVE UpdatePassKeepAll(_, _, _)
UpdatePassKeepAll(st, i, kept) ==
    IF i > Len(st.animations) THEN [st EXCEPT !.animations = kept]
    ELSE LET id == st.animations[i]
             s1 == Advance(st, id)
         IN UpdatePassKeepAll(s1, i + 1, Append(kept, id))

\* [anim for anim in self.animations if anim.update()]: the iteration is over the
\* list object itself, so it reaches what a callback appends to it meanwhile; the
\* attribute is rebound to the filtered list when the iteration has ended, and
\* keeps the list it names when an anim.update() raises
RECURSIVE UpdatePass(_, _, _)
UpdatePass(st, i, kept) ==
    IF st.raised THEN [st EXCEPT !.animations = Bound(st)]
    ELSE IF i > Len(st.animations) THEN [st EXCEPT !.animations = kept]
    ELSE LET id == st.animations[i]
             s1 == Advance(st, id)
         IN UpdatePass(s1, i + 1, IF s1.ret THEN Append(kept, id) ELSE kept)

Start(inUpdate) ==
    [anims |-> anims, animations |-> animations, attrs |-> attrs, ret |-> FALSE,
     wrote |-> 0, fired |-> 0, stale |-> stale, inUpdate |-> inUpdate,
     firstNew |-> Len(anims), advanced |-> {}, rebound |-> FALSE, attr |-> <<>>,
     cancelled |-> {}, after |-> {}, raised |-> FALSE]

\* animations a pending "spawn" callback will still create
Pending == Cardinality({i \in 1..Len(anims) :
                          anims[i].on_complete \in {"spawn", "chain"}
                          /\ ~anims[i].is_complete})

\* Animator.animate
Animate(target, property_name, to_value, duration, easing, on_complete) ==
    LET r == AnimateIn(Start(FALSE), target, property_name, to_value, duration,
                       easing, on_complete)
    IN /\ anims' = r.anims
       /\ animations' = r.animations
       /\ UNCHANGED <<attrs, running, now, stale>>

\* Animator.update without its test of self.running
AnimatorUpdateIgnoringPause ==
    LET r == UpdatePass(Start(TRUE), 1, <<>>)
    IN /\ anims' = r.anims
       /\ animations' = r.animations
       /\ attrs' = r.attrs
       /\ stale' = r.stale
       /\ UNCHANGED <<running, now>>

\* Animator.update
AnimatorUpdate ==
    IF ~running
    THEN UNCHANGED <<anims, animations, attrs, running, now, stale>>
    ELSE LET r == UpdatePass(Start(TRUE), 1, <<>>)
         IN /\ anims' = r.anims
            /\ animations' = r.animations
            /\ attrs' = r.attrs
            /\ stale' = r.stale
            /\ UNCHANGED <<running, now>>

\* Animation.update called by the holder of the handle animate() returned
HandleUpdate(id) ==
    LET r == Advance(Start(FALSE), id)
    IN /\ anims' = r.anims
       /\ animations' = r.animations
       /\ attrs' = r.attrs
       /\ stale' = r.stale
       /\ UNCHANGED <<running, now>>

\* animate_multiple, the loop with on_complete handed to every animate() call
RECURSIVE AnimateEachWithCallback(_, _, _, _, _, _, _)
AnimateEachWithCallback(r, target, properties, i, duration, easing, on_complete) ==
    IF i > Len(properties) THEN r
    ELSE LET s1 == AnimateIn(r.st, target, properties[i].name, properties[i].to,
                             duration, easing, on_complete)
         IN AnimateEachWithCallback([st |-> s1,
                                     animations |-> Append(r.animations, AnimateReturn(r.st))],
                                    target, properties, i + 1, duration, easing, on_complete)

\* animate_multiple with on_complete attached to every animation it creates
AnimateMultipleInAll(st, target, properties, duration, easing, on_complete) ==
    AnimateEachWithCallback([st |-> st, animations |-> <<>>], target, properties, 1,
                            duration, easing, on_complete)

\* animate_multiple, the loop: one animate() call without callback per entry,
\* r.animations being the local list of what the calls returned
RECURSIVE AnimateEach(_, _, _, _, _, _)
AnimateEach(r, target, properties, i, duration, easing) ==
    IF i > Len(properties) THEN r
    ELSE LET s1 == AnimateIn(r.st, target, properties[i].name, properties[i].to,
                             duration, easing, "none")
         IN AnimateEach([st |-> s1,
                         animations |-> Append(r.animations, AnimateReturn(r.st))],
                        target, properties, i + 1, duration, easing)

\* Animator.animate_multiple, on the record st; the result holds the list returned
AnimateMultipleIn(st, target, properties, duration, easing, on_complete) ==
    LET r == AnimateEach([st |-> st, animations |-> <<>>], target, properties, 1,
                         duration, easing)
        last == r.animations[Len(r.animations)]
    IN IF r.animations # <<>> /\ on_complete # "none"
       THEN [r EXCEPT !.st.anims[last].on_complete = on_complete]
       ELSE r

\* Animator.animate_multiple
AnimateMultiple(target, properties, duration, easing, on_complete) ==
    LET r == AnimateMultipleIn(Start(FALSE), target, properties, duration, easing,
                               on_complete)
    IN /\ anims' = r.st.anims
       /\ animations' = r.st.animations
       /\ UNCHANGED <<attrs, running, now, stale>>

\* a stop_all that leaves the list as it is
StopAllKeep ==
    UNCHANGED <<anims, animations, attrs, running, now, stale>>

\* Animator.stop_all: self.animations.clear()
StopAll ==
    /\ animations' = <<>>
    /\ UNCHANGED <<anims, attrs, running, now, stale>>

\* anim.target != target: identity for a plain object, the attributes for two
\* instances of the class that defines __eq__
TargetNe(a, b) ==
    IF a \in ValueObjects /\ b \in ValueObjects THEN attrs[a] # attrs[b] ELSE a # b

\* Animator.stop_animations_for_target
StopAnimationsForTarget(target) ==
    /\ animations' = SelectSeq(animations, LAMBDA i : TargetNe(anims[i].target, target))
    /\ UNCHANGED <<anims, attrs, running, now, stale>>

\* Animator.pause
Pause ==
    /\ running' = FALSE
    /\ UNCHANGED <<anims, animations, attrs, now, stale>>

\* Animator.resume
Resume ==
    /\ running' = TRUE
    /\ anims' = [i \in 1..Len(anims) |->
                   IF i \in Range(animations)
                   THEN [anims[i] EXCEPT
                           !.start_time = now - Min(now - anims[i].start_time,
                                                    anims[i].duration)]
                   ELSE anims[i]]
    /\ UNCHANGED <<animations, attrs, now, stale>>

\* time.time() moves on between two calls
Tick ==
    /\ now < MaxTime
    /\ now' = now + 1
    /\ UNCHANGED <<anims, animations, attrs, running, stale>>

\* ------------------------------------------------------------------ layout
\* the props and geometry the containers are constructed with
ContainerX == {3}
ContainerY == {1}
ContainerWidths == {20, 31}
ContainerHeights == {10, 21}
Gaps == {0, 2}
Justifies == {"start", "center", "end", "space-between", "space-around"}
Aligns == {"start", "center", "end", "stretch"}
ChildSizes == {4, 7}
GridRows == {None, 2}

\* a coordinate is a Python number; the true division of the space-between
\* branch makes it a float, kept here as the exact fraction <<num, den>>
Whole(n) == <<n, 1>>

\* a fresh child component with its size set: Component.__init__, set_size
NewChild(w, h) == [x |-> Whole(0), y |-> Whole(0), width |-> w, height |-> h]

\* the sequences of children a container is given, by their main-axis sizes
RECURSIVE KidSeqs(_)
KidSeqs(n) ==
    IF n = 0 THEN {<<>>}
    ELSE LET shorter == KidSeqs(n - 1)
         IN shorter \cup {Append(q, z) : q \in {r \in shorter : Len(r) = n - 1},
                                         z \in ChildSizes}

RECURSIVE SumWidth(_, _), SumHeight(_, _)
\* sum(child.width for child in self.children)
SumWidth(cs, i) == IF i > Len(cs) THEN 0 ELSE cs[i].width + SumWidth(cs, i + 1)
\* sum(child.height for child in self.children)
SumHeight(cs, i) == IF i > Len(cs) THEN 0 ELSE cs[i].height + SumHeight(cs, i + 1)

\* Row.calculate_child_y: the y it returns
CalculateChildY(L, child) ==
    IF L.align_items = "center" THEN L.y + (L.height - child.height) \div 2
    ELSE IF L.align_items = "end" THEN L.y + L.height - child.height
    ELSE L.y

\* Row.calculate_child_y: the child after it ('stretch' sets its height)
AfterCalculateChildY(L, child) ==
    IF L.align_items = "stretch" THEN [child EXCEPT !.height = L.height] ELSE child

\* the loop of Row.layout_children: set_position(child_x, calculate_child_y(child)),
\* child_x += child.width + gap; child_x is num/den and gap is gapNum/den
RECURSIVE RowPlace(_, _, _, _, _, _)
RowPlace(L, cs, i, num, gapNum, den) ==
    IF i > Len(cs) THEN cs
    ELSE LET c1 == AfterCalculateChildY(L, cs[i])
             c2 == [c1 EXCEPT !.x = <<num, den>>,
                              !.y = Whole(CalculateChildY(L, cs[i]))]
         IN RowPlace(L, [cs EXCEPT ![i] = c2], i + 1,
                     num + c2.width * den + gapNum, gapNum, den)

\* the space-between branch without its test for a single child
RowSpaceBetweenNoSingle(L) ==
    LET n == Len(L.children)
        available_width == L.width - (n - 1) * L.gap
        remaining_space == available_width - SumWidth(L.children, 1)
    IN RowPlace(L, L.children, 1, L.x * (n - 1), remaining_space, n - 1)

\* Row.layout_children, the space-between branch
RowSpaceBetween(L) ==
    LET n == Len(L.children)
        available_width == L.width - (n - 1) * L.gap
        remaining_space == available_width - SumWidth(L.children, 1)
    IN IF n = 1
       THEN RowPlace(L, L.children, 1, L.x, 0, 1)
       ELSE RowPlace(L, L.children, 1, L.x * (n - 1), remaining_space, n - 1)

\* Row.layout_children: the children after it
RowLayoutChildren(L) ==
    LET cs == L.children
        available_width == L.width - (Len(cs) - 1) * L.gap
        total_child_width == SumWidth(cs, 1)
    IN IF cs = <<>> THEN cs
       ELSE IF L.justify_content = "start" THEN RowPlace(L, cs, 1, L.x, L.gap, 1)
       ELSE IF L.justify_content = "center"
       THEN RowPlace(L, cs, 1, L.x + (available_width - total_child_width) \div 2,
                     L.gap, 1)
       ELSE IF L.justify_content = "end"
       THEN RowPlace(L, cs, 1, L.x + available_width - total_child_width, L.gap, 1)
       ELSE IF L.justify_content = "space-between" THEN RowSpaceBetween(L)
       ELSE cs

\* Column.calculate_child_x: the x it returns
CalculateChildX(L, child) ==
    IF L.align_items = "center" THEN L.x + (L.width - child.width) \div 2
    ELSE IF L.align_items = "end" THEN L.x + L.width - child.width
    ELSE L.x

\* a calculate_child_x that leaves the child's size alone
AfterCalculateChildXKeep(L, child) == child

\* Column.calculate_child_x: the child after it ('stretch' sets its width)
AfterCalculateChildX(L, child) ==
    IF L.align_items = "stretch" THEN [child EXCEPT !.width = L.width] ELSE child

\* the loop of Column.layout_children
RECURSIVE ColumnPlace(_, _, _, _, _, _)
ColumnPlace(L, cs, i, num, gapNum, den) ==
    IF i > Len(cs) THEN cs
    ELSE LET c1 == AfterCalculateChildX(L, cs[i])
             c2 == [c1 EXCEPT !.x = Whole(CalculateChildX(L, cs[i])),
                              !.y = <<num, den>>]
         IN ColumnPlace(L, [cs EXCEPT ![i] = c2], i + 1,
                        num + c2.height * den + gapNum, gapNum, den)

\* Column.layout_children, the space-between branch
ColumnSpaceBetween(L) ==
    LET n == Len(L.children)
        available_height == L.height - (n - 1) * L.gap
        remaining_space == available_height - SumHeight(L.children, 1)
    IN IF n = 1
       THEN ColumnPlace(L, L.children, 1, L.y, 0, 1)
       ELSE ColumnPlace(L, L.children, 1, L.y * (n - 1), remaining_space, n - 1)

\* Column.layout_children: the children after it
ColumnLayoutChildren(L) ==
    LET cs == L.children
        available_height == L.height - (Len(cs) - 1) * L.gap
        total_child_height == SumHeight(cs, 1)
    IN IF cs = <<>> THEN cs
       ELSE IF L.justify_content = "start" THEN ColumnPlace(L, cs, 1, L.y, L.gap, 1)
       ELSE IF L.justify_content = "center"
       THEN ColumnPlace(L, cs, 1, L.y + (available_height - total_child_height) \div 2,
                        L.gap, 1)
       ELSE IF L.justify_content = "end"
       THEN ColumnPlace(L, cs, 1, L.y + available_height - total_child_height, L.gap, 1)
       ELSE IF L.justify_content = "space-between" THEN ColumnSpaceBetween(L)
       ELSE cs

\* a Grid.layout_children that fills the columns first
GridLayoutChildrenColumnMajor(L) ==
    LET n == Len(L.children)
        total_columns == L.columns
        total_rows == IF L.rows # None THEN L.rows
                      ELSE (n + total_columns - 1) \div total_columns
        cell_width == (L.width - (total_columns - 1) * L.column_gap) \div total_columns
        cell_height == (L.height - (total_rows - 1) * L.row_gap) \div total_rows
    IN IF n = 0 THEN L.children ELSE
       [k \in 1..n |->
          LET i == k - 1
              col == i \div total_rows
              row == i % total_rows
          IN [x |-> Whole(L.x + col * (cell_width + L.column_gap)),
              y |-> Whole(L.y + row * (cell_height + L.row_gap)),
              width |-> cell_width, height |-> cell_height]]

\* Grid.layout_children with the cell sizes rounded up instead of down
GridLayoutChildrenRoundUp(L) ==
    LET n == Len(L.children)
        total_columns == L.columns
        total_rows == IF L.rows # None THEN L.rows
                      ELSE (n + total_columns - 1) \div total_columns
        cell_width == 0 - ((0 - (L.width - (total_columns - 1) * L.column_gap))
                           \div total_columns)
        cell_height == 0 - ((0 - (L.height - (total_rows - 1) * L.row_gap))
                            \div total_rows)
    IN IF n = 0 THEN L.children ELSE
       [k \in 1..n |->
          LET i == k - 1
              col == i % total_columns
              row == i \div total_columns
          IN [x |-> Whole(L.x + col * (cell_width + L.column_gap)),
              y |-> Whole(L.y + row * (cell_height + L.row_gap)),
              width |-> cell_width, height |-> cell_height]]

\* Grid.layout_children: the children after it (enumerate counts from 0)
GridLayoutChildren(L) ==
    LET n == Len(L.children)
        total_columns == L.columns
        total_rows == IF L.rows # None THEN L.rows
                      ELSE (n + total_columns - 1) \div total_columns
        cell_width == (L.width - (total_columns - 1) * L.column_gap) \div total_columns
        cell_height == (L.height - (total_rows - 1) * L.row_gap) \div total_rows
    IN IF n = 0 THEN L.children ELSE
       [k \in 1..n |->
          LET i == k - 1
              col == i % total_columns
              row == i \div total_columns
          IN [x |-> Whole(L.x + col * (cell_width + L.column_gap)),
              y |-> Whole(L.y + row * (cell_height + L.row_gap)),
              width |-> cell_width, height |-> cell_height]]

\* Stack.layout_children: the children after it
StackLayoutChildren(L) ==
    [k \in 1..Len(L.children) |->
       LET child == L.children[k]
       IN IF L.align_items = "start"
          THEN [child EXCEPT !.x = Whole(L.x), !.y = Whole(L.y)]
          ELSE IF L.align_items = "center"
          THEN [child EXCEPT !.x = Whole(L.x + (L.width - child.width) \div 2),
                             !.y = Whole(L.y + (L.height - child.height) \div 2)]
          ELSE IF L.align_items = "end"
          THEN [child EXCEPT !.x = Whole(L.x + L.width - child.width),
                             !.y = Whole(L.y + L.height - child.height)]
          ELSE IF L.align_items = "stretch"
          THEN [child EXCEPT !.x = Whole(L.x), !.y = Whole(L.y),
                             !.width = L.width, !.height = L.height]
          ELSE child]

\* a Grid.layout_children that computes the cells before looking at the children
GridZeroDivisionNoGuard(L) ==
    \/ L.columns = 0
    \/ (IF L.rows # None THEN L.rows
        ELSE (Len(L.children) + L.columns - 1) \div L.columns) = 0

\* Grid.layout_children raises ZeroDivisionError: one of its floor divisions,
\* by total_columns or by total_rows, has a zero divisor
GridZeroDivision(L) ==
    /\ L.children # <<>>
    /\ \/ L.columns = 0
       \/ (IF L.rows # None THEN L.rows
           ELSE (Len(L.children) + L.columns - 1) \div L.columns) = 0

\* a Row or a Column is constructed with its props, placed, sized and given
\* children of the sizes ws (along its main axis)
NewFlex(kind, x, y, w, h, gap, jc, ai, ws, cross) ==
    /\ layout.kind = "none"
    /\ layout' =
              [kind |-> kind, x |-> x, y |-> y, width |-> w, height |-> h,
               gap |-> gap, justify_content |-> jc, align_items |-> ai,
               children |-> [k \in 1..Len(ws) |->
                               IF kind = "row" THEN NewChild(ws[k], cross)
                               ELSE NewChild(cross, ws[k])],
               props |-> [gap |-> gap],
               mounted |-> FALSE, needs_update |-> TRUE, raised |-> FALSE]

\* a Grid is constructed with its props, placed, sized and given n children
NewGrid(x, y, w, h, columns, rows, column_gap, row_gap, n, size) ==
    /\ layout.kind = "none"
    /\ layout' =
              [kind |-> "grid", x |-> x, y |-> y, width |-> w, height |-> h,
               columns |-> columns, rows |-> rows, column_gap |-> column_gap,
               row_gap |-> row_gap,
               children |-> [k \in 1..n |-> NewChild(size, size)],
               props |-> [gap |-> column_gap],
               mounted |-> FALSE, needs_update |-> TRUE, raised |-> FALSE]

\* a Stack is constructed with its props, placed, sized and given children of
\* the sizes ws
NewStack(x, y, w, h, ai, ws) ==
    /\ layout.kind = "none"
    /\ layout' =
              [kind |-> "stack", x |-> x, y |-> y, width |-> w, height |-> h,
               align_items |-> ai,
               children |-> [k \in 1..Len(ws) |-> NewChild(ws[k], ws[k])],
               props |-> [gap |-> 0],
               mounted |-> FALSE, needs_update |-> TRUE, raised |-> FALSE]

\* component_did_mount of Row, Column, Stack and Grid: self.layout_children();
\* an exception leaves the children as they were and leaves update()
ComponentDidMount(L) ==
    IF L.kind = "grid" /\ GridZeroDivision(L) THEN [L EXCEPT !.raised = TRUE]
    ELSE [L EXCEPT !.children = IF L.kind = "row" THEN RowLayoutChildren(L)
                                ELSE IF L.kind = "column" THEN ColumnLayoutChildren(L)
                                ELSE IF L.kind = "stack" THEN StackLayoutChildren(L)
                                ELSE GridLayoutChildren(L)]

\* an update() that runs the mount hook every time
ContainerUpdateRemounting(L) ==
    LET m == ComponentDidMount(L)
    IN IF m.raised THEN m ELSE [m EXCEPT !.mounted = TRUE, !.needs_update = FALSE]

\* Component.update on the container: the mount hook when it is not mounted,
\* then component_did_update when it needs an update; its children are plain
\* components, whose own update() moves nothing
ContainerUpdateIn(L) ==
    LET m == IF ~L.mounted THEN ComponentDidMount(L) ELSE L
    IN IF m.raised THEN m ELSE [m EXCEPT !.mounted = TRUE, !.needs_update = FALSE]

\* update() is called on the container
ContainerUpdate ==
    /\ layout.kind # "none"
    /\ layout' = ContainerUpdateIn(layout)

\* add_child(child) on the container, the child fresh and sized
ContainerAddChild(w, h) ==
    /\ layout.kind # "none"
    /\ layout' = [layout EXCEPT !.children = Append(@, NewChild(w, h)),
                                !.needs_update = TRUE]

\* remove_child(child) on the container, the child its k-th
ContainerRemoveChild(k) ==
    /\ layout.kind # "none"
    /\ k \in 1..Len(layout.children)
    /\ layout' = [layout EXCEPT
                    !.children = [j \in 1..(Len(@) - 1) |->
                                    IF j < k THEN @[j] ELSE @[j + 1]],
                    !.needs_update = TRUE]

\* set_size(width, height) on the container
ContainerSetSize(w, h) ==
    /\ layout.kind # "none"
    /\ layout' = [layout EXCEPT !.width = w, !.height = h]

\* set_position(x, y) on the container
ContainerSetPosition(x, y) ==
    /\ layout.kind # "none"
    /\ layout' = [layout EXCEPT !.x = x, !.y = y]

\* set_prop(key, value) on the container: the props dictionary changes, the
\* attribute __init__ read from it does not
ContainerSetProp(key, value) ==
    /\ layout.kind # "none"
    /\ layout' = [layout EXCEPT !.props = [q \in DOMAIN @ \cup {key} |->
                                             IF q = key THEN value ELSE @[q]],
                                !.needs_update = TRUE]

\* a Row is nested in a Row or a Grid as its slot-th child: the outer container
\* with its children, and the nested Row (the same object as children[slot])
\* with the children of its own; log is the order of the hook and layout calls of
\* the outer container's first update()
NewNested(kind, w, h, gap, jc, ai, n, slot, iw, ih, ijc, iai, ws) ==
    /\ layout.kind = "none"
    /\ layout' =
          [kind |-> kind, x |-> 3, y |-> 1, width |-> w, height |-> h,
           gap |-> gap, justify_content |-> jc, align_items |-> ai,
           columns |-> 2, rows |-> None, column_gap |-> gap, row_gap |-> gap,
           children |-> [k \in 1..n |-> IF k = slot THEN NewChild(iw, ih)
                                        ELSE NewChild(4, 4)],
           props |-> [gap |-> gap],
           mounted |-> FALSE, needs_update |-> TRUE, raised |-> FALSE,
           slot |-> slot,
           inner |-> [kind |-> "row", x |-> 0, y |-> 0, width |-> iw, height |-> ih,
                      gap |-> 0, justify_content |-> ijc, align_items |-> iai,
                      children |-> [j \in 1..Len(ws) |-> NewChild(ws[j], 4)],
                      props |-> [gap |-> 0],
                      mounted |-> FALSE, needs_update |-> TRUE, raised |-> FALSE],
           log |-> <<>>]

\* the nested container after set_position and the size its parent's layout gave
\* to the child it is
Placed(L) ==
    LET g == L.children[L.slot]
    IN [L EXCEPT !.inner.x = g.x[1] \div g.x[2], !.inner.y = g.y[1] \div g.y[2],
                 !.inner.width = g.width, !.inner.height = g.height]

\* the mount hook of the outer container: its layout_children places and sizes
\* its children, the nested container among them
NestedDidMount(L) ==
    [Placed(ComponentDidMount(L)) EXCEPT
        !.log = @ \o <<<<"component_did_mount", <<0>>>>, <<"layout_children", <<0>>>>>>]

\* update() of the nested container: its mount hook lays out its children where
\* it is now, then its children, plain components, are updated
NestedInnerUpdate(L) ==
    LET was == L.inner.mounted
        s1 == [L EXCEPT !.inner = ContainerUpdateIn(@)]
    IN IF was THEN s1
       ELSE [s1 EXCEPT !.log = @ \o <<<<"component_did_mount", <<L.slot>>>>,
                                       <<"layout_children", <<L.slot>>>>>>
                                  \o [j \in 1..Len(L.inner.children) |->
                                        <<"component_did_mount", <<L.slot, j>>>>]]

\* for child in self.children: child.update(), from the k-th child on; first
\* tells whether the plain children are not mounted yet
RECURSIVE NestedChildren(_, _, _)
NestedChildren(L, k, first) ==
    IF k > Len(L.children) THEN L
    ELSE IF k = L.slot THEN NestedChildren(NestedInnerUpdate(L), k + 1, first)
    ELSE IF first
    THEN NestedChildren([L EXCEPT !.log = Append(@, <<"component_did_mount", <<k>>>>)],
                        k + 1, first)
    ELSE NestedChildren(L, k + 1, first)

\* an update() that visits the children before the hooks of the component
NestedUpdateChildrenFirst(L) ==
    LET s1 == NestedChildren(L, 1, ~L.mounted)
        m == IF ~s1.mounted THEN NestedDidMount(s1) ELSE s1
    IN [m EXCEPT !.mounted = TRUE, !.needs_update = FALSE]

\* Component.update on the outer container: the mount hook when it is not
\* mounted, component_did_update when it needs an update, then the children
NestedUpdateIn(L) ==
    LET m == IF ~L.mounted THEN NestedDidMount(L) ELSE L
        s1 == [m EXCEPT !.mounted = TRUE, !.needs_update = FALSE]
    IN NestedChildren(s1, 1, ~L.mounted)

\* update() is called on the outer container
NestedUpdate ==
    /\ layout.kind # "none"
    /\ layout' = NestedUpdateIn(layout)

\* update() is called on the nested container itself
InnerUpdate ==
    /\ layout.kind # "none"
    /\ layout' = [layout EXCEPT !.inner = ContainerUpdateIn(@)]

\* ------------------------------------------------------------------ Application
\* the pygame events the loop receives: QUIT, and KEYDOWN for which the
\* application registered (on_event) a callback that calls set_state on the root
EventTypes == {"quit", "key_down"}

\* the user acts: pygame queues an event
PostEvent(e) ==
    /\ app.posted < MaxEvents
    /\ app' = [app EXCEPT !.events = Append(@, e), !.posted = @ + 1]
    /\ UNCHANGED compVars

\* Application.create_window
CreateWindow ==
    /\ app.pc = "idle" /\ ~app.window
    /\ app' = [app EXCEPT !.window = TRUE]
    /\ UNCHANGED compVars

\* Application.run up to the loop: RuntimeError without a window, else
\* self.running = True
RunStart ==
    /\ app.pc = "idle"
    /\ app' = IF ~app.window THEN [app EXCEPT !.pc = "raised"]
              ELSE [app EXCEPT !.running = TRUE, !.pc = "while"]
    /\ UNCHANGED compVars

\* while self.running: a new iteration, or self.quit()
LoopTest ==
    /\ app.pc = "while"
    /\ app' = IF app.running
              THEN [app EXCEPT !.pc = "events", !.trace = <<>>]
              ELSE [app EXCEPT !.pc = "exited"]
    /\ UNCHANGED compVars

\* for event in pygame.event.get(): QUIT clears running, every other event goes
\* to EventManager.handle_event, which calls the registered callbacks
HandleEvents ==
    /\ app.pc = "events"
    /\ app' = [app EXCEPT !.running = @ /\ "quit" \notin Range(app.events),
                          !.events = <<>>, !.pc = "update",
                          !.trace = Append(@, "events")]
    /\ IF "key_down" \in Range(app.events) /\ root_component # None
       THEN \E k \in Keys, v \in Values : SetState(root_component, k, v)
       ELSE UNCHANGED compVars

\* self.window.update(): Window.update
WindowUpdate ==
    /\ app.pc = "update"
    /\ app' = [app EXCEPT !.pc = "render", !.trace = Append(@, "update")]
    /\ IF root_component # None THEN Update(root_component) ELSE UNCHANGED compVars

\* self.window.render(): Window.render draws what the tree and the animated
\* object hold now
WindowRender ==
    /\ app.pc = "render"
    /\ app' = [app EXCEPT !.pc = "flip", !.trace = Append(@, "render"),
                          !.drawn = IF root_component # None
                                    THEN [root |-> root_component,
                                          state |-> state[root_component]["k"],
                                          x |-> attrs["box"]["x"]]
                                    ELSE @]
    /\ UNCHANGED compVars

\* pygame.display.flip(); clock.tick(60)
Flip ==
    /\ app.pc = "flip"
    /\ app' = [app EXCEPT !.pc = "while"]
    /\ UNCHANGED compVars

\* ------------------------------------------------------------------ EventManager
\* what the events carry: a cursor position, a button number, a key
Cursors == {<<4, 5>>}
Buttons == {3, 4}
KeyCodes == {"a"}
\* the callbacks an application registers: f and g only look at what they are
\* given; once also unregisters itself from the kind it is called for
EventCallbacks == {"f", "g", "once"}
\* registrations an EventManager holds at a time
MaxRegs == 2

PygameEvent(type, pos, button, key) ==
    [type |-> type, pos |-> pos, button |-> button, key |-> key]

\* the events pygame delivers: those of the types in event_map, and two of
\* types it does not list
PygameEvents ==
    {PygameEvent("MOUSEMOTION", p, None, None) : p \in Cursors}
    \cup {PygameEvent(t, p, b, None) :
            t \in {"MOUSEBUTTONDOWN", "MOUSEBUTTONUP"}, p \in Cursors, b \in Buttons}
    \cup {PygameEvent(t, <<0, 0>>, None, k) : t \in {"KEYDOWN", "KEYUP"}, k \in KeyCodes}
    \cup {PygameEvent(t, <<0, 0>>, None, None) :
            t \in {"QUIT", "VIDEORESIZE", "MOUSEWHEEL", "ACTIVEEVENT"}}

\* EventManager._get_event_type: event_map.get(event.type, '')
GetEventType(event) ==
    IF event.type = "MOUSEBUTTONDOWN" THEN "mouse_down"
    ELSE IF event.type = "MOUSEBUTTONUP" THEN "mouse_up"
    ELSE IF event.type = "MOUSEMOTION" THEN "mouse_move"
    ELSE IF event.type = "KEYDOWN" THEN "key_down"
    ELSE IF event.type = "KEYUP" THEN "key_up"
    ELSE IF event.type = "QUIT" THEN "quit"
    ELSE IF event.type = "VIDEORESIZE" THEN "resize"
    ELSE ""

\* self.mouse_buttons[event.button - 1]: the place in the list of three, counted
\* from 1 here; a Python index below zero counts from the end
ButtonSlot(button) == IF button >= 1 THEN button ELSE button + 3

\* EventManager._update_state
UpdateState(E, event) ==
    IF event.type = "MOUSEMOTION" THEN [E EXCEPT !.mouse_position = event.pos]
    ELSE IF event.type \in {"MOUSEBUTTONDOWN", "MOUSEBUTTONUP"}
    THEN IF event.button <= 3
         THEN IF ButtonSlot(event.button) \in 1..3
              THEN [E EXCEPT !.mouse_buttons[ButtonSlot(event.button)] =
                                 (event.type = "MOUSEBUTTONDOWN")]
              ELSE [E EXCEPT !.raised = TRUE]
         ELSE E
    ELSE IF event.type = "KEYDOWN"
    THEN [E EXCEPT !.keys_pressed = @ \cup {event.key}]
    ELSE IF event.type = "KEYUP"
    THEN [E EXCEPT !.keys_pressed = @ \ {event.key}]
    ELSE E

\* the input state the EventManager tracks
Tracked(E) ==
    [mouse_position |-> E.mouse_position, mouse_buttons |-> E.mouse_buttons,
     keys_pressed |-> E.keys_pressed]

\* EventManager.register_callback
RegisterCallbackIn(E, event_type, callback) ==
    [E EXCEPT !.callbacks =
        IF event_type \in DOMAIN @ THEN [@ EXCEPT ![event_type] = Append(@, callback)]
        ELSE [k \in DOMAIN @ \cup {event_type} |->
                IF k = event_type THEN <<callback>> ELSE @[k]]]

\* EventManager.unregister_callback: list.remove, a ValueError when the
\* callback is not in the list of that kind
UnregisterCallbackIn(E, event_type, callback) ==
    IF event_type \notin DOMAIN E.callbacks THEN E
    ELSE IF callback \in Range(E.callbacks[event_type])
    THEN [E EXCEPT !.callbacks[event_type] = RemoveFirst(@, callback)]
    ELSE [E EXCEPT !.raised = TRUE]

\* for callback in self.callbacks[event_type]: callback(event) -- the loop reads
\* the list it is given place by place, as the callbacks leave it
RECURSIVE Dispatch(_, _, _, _)
Dispatch(E, event_type, i, event) ==
    IF i > Len(E.callbacks[event_type]) THEN E
    ELSE LET callback == E.callbacks[event_type][i]
             called == [E EXCEPT !.log = Append(@, [cb |-> callback, arg |-> event,
                                                    seen |-> Tracked(E)])]
             after == IF callback = "once"
                      THEN UnregisterCallbackIn(called, event_type, callback)
                      ELSE called
         IN Dispatch(after, event_type, i + 1, event)

\* a handle_event that calls the callbacks before it updates the state
HandleEventInCallbacksFirst(E, event) ==
    LET event_type == GetEventType(event)
        E0 == [E EXCEPT !.op = "handle_event", !.event = event, !.log = <<>>,
                        !.raised = FALSE]
    IN IF event_type = "" THEN E0
       ELSE IF event_type \in DOMAIN E0.callbacks
       THEN UpdateState(Dispatch(E0, event_type, 1, event), event)
       ELSE UpdateState(E0, event)

\* EventManager.handle_event
HandleEventIn(E, event) ==
    LET event_type == GetEventType(event)
        E0 == [E EXCEPT !.op = "handle_event", !.event = event, !.log = <<>>,
                        !.raised = FALSE]
    IN IF event_type = "" THEN E0
       ELSE LET E1 == UpdateState(E0, event)
            IN IF event_type \in DOMAIN E1.callbacks
               THEN Dispatch(E1, event_type, 1, event)
               ELSE E1

\* the registrations the EventManager holds
Registrations(E) == SumLen(E.callbacks, DOMAIN E.callbacks)

\* register_callback(event_type, callback) is called
RegisterCallback(event_type, callback) ==
    /\ Registrations(em) < MaxRegs
    /\ em' = [RegisterCallbackIn(em, event_type, callback) EXCEPT
                !.op = "register_callback", !.raised = FALSE]

\* unregister_callback(event_type, callback) is called
UnregisterCallback(event_type, callback) ==
    em' = [UnregisterCallbackIn([em EXCEPT !.raised = FALSE], event_type, callback)
             EXCEPT !.op = "unregister_callback",
                    !.event = [type |-> "none", kind |-> event_type, cb |-> callback]]

\* handle_event(event) is called
HandleEvent(event) == em' = HandleEventIn(em, event)

\* Application.run, the body of `for event in pygame.event.get()`: QUIT clears
\* running, every other event goes to EventManager.handle_event
LoopEvent(event) ==
    /\ app.running
    /\ IF event.type = "QUIT"
       THEN app' = [app EXCEPT !.running = FALSE] /\ UNCHANGED em
       ELSE em' = HandleEventIn(em, event) /\ UNCHANGED app

\* ------------------------------------------------------------------ specifications
\* the tree: add_child and remove_child on any pair of components
NextTree ==
    \/ \E p \in Comp, c \in Comp :
         /\ TotalLinks < MaxLinks
         /\ AddChild(p, c)
         /\ lastCall' = Call("add_child", c, c \in Range(children[p]), FALSE)
         /\ UNCHANGED <<scenario, animVars, extVars>>
    \/ \E p \in Comp, c \in Comp :
         /\ RemoveChild(p, c)
         /\ lastCall' = Call("remove_child", c, c \in Range(children[p]), FALSE)
         /\ UNCHANGED <<scenario, animVars, extVars>>

SpecTree == Init /\ [][NextTree]_vars

\* the context: set_root_component and add_child on any pair of components
NextCtx ==
    \/ \E c \in Comp :
         /\ SetRootComponent(c)
         /\ lastCall' = Call("set_root_component", c, FALSE, ~rootReturned')
         /\ UNCHANGED <<scenario, animVars, extVars>>
    \/ \E p \in Comp, c \in Comp :
         /\ TotalLinks < MaxLinks
         /\ AddChild(p, c)
         /\ lastCall' = Call("add_child", c, c \in Range(children[p]),
                             children'[p] = children[p])
         /\ UNCHANGED <<scenario, animVars, extVars>>

SpecCtx == Init /\ [][NextCtx]_vars

\* the observer after a mutation of c: armed when c was mounted and clean
Mutated(c, same) ==
    IF mounted[c] /\ ~needs_update[c]
    THEN [phase |-> "mutated", c |-> c, same |-> same]
    ELSE Idle

\* the observer after c.update()
Updated(c) ==
    IF scenario.c = c /\ scenario.phase = "mutated"
    THEN [scenario EXCEPT !.phase = "updated"]
    ELSE IF scenario.c = c /\ scenario.phase \in {"updated", "again"}
    THEN [scenario EXCEPT !.phase = "again"]
    ELSE Idle

LifeComps == 1..LifeComp

\* mounting: update, set_state, set_prop, add_child, remove_child in any order
NextMount ==
    \/ \E c \in LifeComps :
         Update(c) /\ UNCHANGED <<scenario, lastCall, animVars, extVars>>
    \/ \E c \in LifeComps, k \in Keys, v \in Values :
         SetState(c, k, v) /\ UNCHANGED <<scenario, lastCall, animVars, extVars>>
    \/ \E c \in LifeComps, k \in Keys, v \in Values :
         SetProp(c, k, v) /\ UNCHANGED <<scenario, lastCall, animVars, extVars>>
    \/ \E p \in LifeComps, c \in LifeComps :
         /\ TotalLinks < LifeLinks
         /\ AddChild(p, c)
         /\ UNCHANGED <<scenario, lastCall, animVars, extVars>>
    \/ \E p \in LifeComps, c \in LifeComps :
         RemoveChild(p, c) /\ UNCHANGED <<scenario, lastCall, animVars, extVars>>

SpecMount == Init /\ [][NextMount]_vars

\* mutation and re-render: update, set_state, set_prop on components that
\* add_child may have linked, with the observer of the last mutation
NextLife ==
    \/ \E c \in LifeComps :
         Update(c) /\ scenario' = Updated(c) /\ UNCHANGED <<lastCall, animVars, extVars>>
    \/ \E c \in LifeComps, k \in Keys, v \in Values :
         /\ SetState(c, k, v)
         /\ scenario' = Mutated(c, state[c][k] = v)
         /\ UNCHANGED <<lastCall, animVars, extVars>>
    \/ \E c \in LifeComps, k \in Keys, v \in Values :
         /\ SetProp(c, k, v)
         /\ scenario' = Mutated(c, props[c][k] = v)
         /\ UNCHANGED <<lastCall, animVars, extVars>>
    \/ \E p \in LifeComps, c \in LifeComps :
         /\ TotalLinks < LifeLinks
         /\ AddChild(p, c)
         /\ scenario' = Idle
         /\ UNCHANGED <<lastCall, animVars, extVars>>

SpecLife == Init /\ [][NextLife]_vars

\* the observer of pause(), resume() and the update() that follows at once:
\* at pause() it notes, for every active animation, the time elapsed so far
PauseObserved ==
    IF running
    THEN [phase |-> "paused",
          elapsed |-> [i \in {j \in Range(animations) : ~anims[j].is_complete} |->
                         now - anims[i].start_time]]
    ELSE pauseObs

NoPause == [phase |-> "none", elapsed |-> [i \in {} |-> 0]]

\* the animator: animate, update, Animation.update on a handle, and the clock
NextAnim ==
    \/ \E t \in Targets, to \in ToValues, d \in Durations, e \in Easings,
          cb \in Callbacks :
         /\ Len(anims) + Pending + (IF cb = "spawn" THEN 2 ELSE 1) <= MaxAnims
         /\ Animate(t, "x", to, d, e, cb)
         /\ UNCHANGED <<animCall, pauseObs, compVars, lastCall, scenario, extVars>>
    \/ /\ AnimatorUpdate
       /\ UNCHANGED <<animCall, pauseObs, compVars, lastCall, scenario, extVars>>
    \/ \E id \in 1..Len(anims) :
         /\ HandleUpdate(id)
         /\ UNCHANGED <<animCall, pauseObs, compVars, lastCall, scenario, extVars>>
    \/ /\ Tick
       /\ UNCHANGED <<animCall, pauseObs, compVars, lastCall, scenario, extVars>>

SpecAnim == Init /\ [][NextAnim]_vars

\* the animator with pause and resume: animate, update, pause, resume, the clock
NextPause ==
    \/ \E t \in Targets, to \in ToValues, d \in Durations, e \in Easings,
          cb \in Callbacks :
         /\ Len(anims) + Pending + (IF cb = "spawn" THEN 2 ELSE 1) <= MaxAnims
         /\ Animate(t, "x", to, d, e, cb)
         /\ animCall' = "animate"
         /\ pauseObs' = NoPause
         /\ UNCHANGED <<compVars, lastCall, scenario, extVars>>
    \/ /\ AnimatorUpdate
       /\ animCall' = (IF running THEN "update" ELSE "update_paused")
       /\ pauseObs' = (IF pauseObs.phase = "resumed"
                       THEN [pauseObs EXCEPT !.phase = "advanced"]
                       ELSE IF pauseObs.phase = "paused" THEN pauseObs
                       ELSE NoPause)
       /\ UNCHANGED <<compVars, lastCall, scenario, extVars>>
    \/ /\ Pause
       /\ animCall' = "pause"
       /\ pauseObs' = PauseObserved
       /\ UNCHANGED <<compVars, lastCall, scenario, extVars>>
    \/ /\ Resume
       /\ animCall' = "resume"
       /\ pauseObs' = (IF pauseObs.phase = "paused"
                       THEN [pauseObs EXCEPT !.phase = "resumed"]
                       ELSE NoPause)
       /\ UNCHANGED <<compVars, lastCall, scenario, extVars>>
    \/ /\ Tick
       /\ pauseObs' = (IF pauseObs.phase = "paused" THEN pauseObs ELSE NoPause)
       /\ UNCHANGED <<animCall, compVars, lastCall, scenario, extVars>>

SpecPause == Init /\ [][NextPause]_vars

\* the animations that are on the active list, as they are now
ActiveSnapshot == [i \in Range(animations) |-> anims[i]]

\* the animations one Animator.update() call advances
AdvancedByUpdate ==
    IF running THEN UpdatePass(Start(TRUE), 1, <<>>).advanced ELSE {}

\* the observer after an Animator.update(): the stopped animations it advanced
StopsAfterUpdate ==
    [stopObs EXCEPT !.touched = @ \cup (AdvancedByUpdate \cap DOMAIN stopObs.snap)]

\* the animator with stop_all: animate, update, stop_all, the clock
NextStop ==
    \/ \E t \in Targets, to \in ToValues, d \in Durations, e \in Easings,
          cb \in Callbacks :
         /\ Len(anims) + Pending + (IF cb = "spawn" THEN 2 ELSE 1) <= MaxAnims
         /\ Animate(t, "x", to, d, e, cb)
         /\ animCall' = "animate"
         /\ UNCHANGED <<auxVars, stopObs, pauseObs, animArgs, layout, app, compVars, lastCall,
                        scenario>>
    \/ /\ AnimatorUpdate
       /\ animCall' = "update"
       /\ stopObs' = StopsAfterUpdate
       /\ UNCHANGED <<auxVars, pauseObs, animArgs, layout, app, compVars, lastCall, scenario>>
    \/ /\ StopAll
       /\ animCall' = "stop_all"
       /\ stopObs' = [stopObs EXCEPT !.snap = ActiveSnapshot @@ @]
       /\ UNCHANGED <<auxVars, pauseObs, animArgs, layout, app, compVars, lastCall, scenario>>
    \/ /\ Tick
       /\ animCall' = "tick"
       /\ UNCHANGED <<auxVars, stopObs, pauseObs, animArgs, layout, app, compVars, lastCall,
                      scenario>>

SpecStop == Init /\ [][NextStop]_vars

\* the animator with stop_animations_for_target over a plain object and two
\* value objects: animate, update, stop_animations_for_target, the clock
NextTarget ==
    \/ \E t \in AllTargets, to \in ToValues, d \in Durations, cb \in {"none", "count"} :
         /\ Len(anims) < MaxAnims
         /\ Animate(t, "x", to, d, "linear", cb)
         /\ animCall' = "animate"
         /\ animArgs' = [op |-> "animate"]
         /\ UNCHANGED <<auxVars, stopObs, pauseObs, layout, app, compVars, lastCall, scenario>>
    \/ /\ AnimatorUpdate
       /\ animCall' = "update"
       /\ animArgs' = [op |-> "update"]
       /\ UNCHANGED <<auxVars, stopObs, pauseObs, layout, app, compVars, lastCall, scenario>>
    \/ \E t \in AllTargets :
         /\ StopAnimationsForTarget(t)
         /\ animCall' = "stop_animations_for_target"
         /\ animArgs' = [op |-> "stop_animations_for_target", target |-> t,
                         animations |-> animations, anims |-> anims]
         /\ UNCHANGED <<auxVars, stopObs, pauseObs, layout, app, compVars, lastCall, scenario>>
    \/ /\ Tick
       /\ animCall' = "tick"
       /\ animArgs' = [op |-> "tick"]
       /\ UNCHANGED <<auxVars, stopObs, pauseObs, layout, app, compVars, lastCall, scenario>>

SpecTarget == Init /\ [][NextTarget]_vars

\* the animator over a property the target holds and one it lacks: animate,
\* update, the clock, with the arguments of the last call
NextStart ==
    \/ \E t \in Targets, pn \in PropertyNames, to \in ToValues, d \in Durations,
          cb \in {"none", "count"} :
         /\ Len(anims) < MaxAnims
         /\ Animate(t, pn, to, d, "linear", cb)
         /\ animCall' = "animate"
         /\ animArgs' = [op |-> "animate", target |-> t, property_name |-> pn,
                         to_value |-> to, returned |-> AnimateReturn(Start(FALSE))]
         /\ UNCHANGED <<auxVars, stopObs, pauseObs, layout, app, compVars, lastCall, scenario>>
    \/ /\ AnimatorUpdate
       /\ animCall' = "update"
       /\ animArgs' = [op |-> "update"]
       /\ UNCHANGED <<auxVars, stopObs, pauseObs, layout, app, compVars, lastCall, scenario>>
    \/ /\ Tick
       /\ animCall' = "tick"
       /\ animArgs' = [op |-> "tick"]
       /\ UNCHANGED <<auxVars, stopObs, pauseObs, layout, app, compVars, lastCall, scenario>>

SpecStart == Init /\ [][NextStart]_vars

\* the animator with animate_multiple: animate_multiple, update, the clock
NextMulti ==
    \/ \E t \in Targets, ps \in PropertyMaps, d \in Durations, cb \in {"none", "count"} :
         /\ Len(anims) + Len(ps) <= MaxAnims
         /\ AnimateMultiple(t, ps, d, "linear", cb)
         /\ animCall' = "animate_multiple"
         /\ animArgs' = [op |-> "animate_multiple", properties |-> ps,
                         on_complete |-> cb,
                         returned |-> AnimateMultipleIn(Start(FALSE), t, ps, d,
                                                        "linear", cb).animations]
         /\ UNCHANGED <<auxVars, stopObs, pauseObs, layout, app, compVars, lastCall, scenario>>
    \/ /\ AnimatorUpdate
       /\ animCall' = "update"
       /\ UNCHANGED <<auxVars, animArgs, stopObs, pauseObs, layout, app, compVars, lastCall,
                      scenario>>
    \/ /\ Tick
       /\ animCall' = "tick"
       /\ UNCHANGED <<auxVars, animArgs, stopObs, pauseObs, layout, app, compVars, lastCall,
                      scenario>>

SpecMulti == Init /\ [][NextMulti]_vars

\* the host loop: the application sets a root and starts animations, then runs;
\* events arrive and the clock moves on at any time
NextRun ==
    \/ /\ CreateWindow
       /\ UNCHANGED <<auxVars, animVars, stopObs, animArgs, layout, lastCall, scenario>>
    \/ \E c \in LifeComps :
         /\ app.pc = "idle" /\ app.window
         /\ SetRootComponent(c)
         /\ UNCHANGED <<auxVars, app, animVars, stopObs, animArgs, layout, lastCall, scenario>>
    \/ \E t \in Targets, to \in ToValues, d \in Durations :
         /\ app.pc = "idle"
         /\ Len(anims) < MaxAnims
         /\ Animate(t, "x", to, d, "linear", "none")
         /\ UNCHANGED <<auxVars, app, compVars, animCall, pauseObs, stopObs, animArgs, layout,
                        lastCall, scenario>>
    \/ \E e \in EventTypes :
         /\ PostEvent(e)
         /\ UNCHANGED <<auxVars, animVars, stopObs, animArgs, layout, lastCall, scenario>>
    \/ /\ RunStart
       /\ UNCHANGED <<auxVars, animVars, stopObs, animArgs, layout, lastCall, scenario>>
    \/ /\ LoopTest
       /\ UNCHANGED <<auxVars, animVars, stopObs, animArgs, layout, lastCall, scenario>>
    \/ /\ HandleEvents
       /\ UNCHANGED <<auxVars, animVars, stopObs, animArgs, layout, lastCall, scenario>>
    \/ /\ WindowUpdate
       /\ UNCHANGED <<auxVars, animVars, stopObs, animArgs, layout, lastCall, scenario>>
    \/ /\ WindowRender
       /\ UNCHANGED <<auxVars, animVars, stopObs, animArgs, layout, lastCall, scenario>>
    \/ /\ Flip
       /\ UNCHANGED <<auxVars, animVars, stopObs, animArgs, layout, lastCall, scenario>>
    \/ /\ Tick
       /\ UNCHANGED <<auxVars, app, compVars, animCall, pauseObs, stopObs, animArgs, layout,
                      lastCall, scenario>>

SpecRun == Init /\ [][NextRun]_vars

\* Row and Column: a container is built, then mounted
NextFlex ==
    \/ layout.kind = "none" /\ \E kind \in {"row", "column"}, x \in ContainerX, y \in ContainerY,
          w \in ContainerWidths, h \in ContainerHeights, gap \in Gaps,
          jc \in Justifies, ai \in Aligns, ws \in KidSeqs(MaxKids),
          cross \in ChildSizes :
         /\ NewFlex(kind, x, y, w, h, gap, jc, ai, ws, cross)
         /\ UNCHANGED <<auxVars, compVars, animVars, stopObs, animArgs, app, lastCall, scenario>>
    \/ /\ ContainerUpdate
       /\ UNCHANGED <<auxVars, compVars, animVars, stopObs, animArgs, app, lastCall, scenario>>

SpecFlex == Init /\ [][NextFlex]_vars

\* Grid: a grid is built, then mounted
NextGrid ==
    \/ layout.kind = "none" /\ \E x \in ContainerX, y \in ContainerY, w \in ContainerWidths,
          h \in ContainerHeights, columns \in 1..GridCols, rows \in GridRows,
          column_gap \in Gaps, row_gap \in Gaps, n \in 0..GridKids,
          size \in ChildSizes :
         /\ NewGrid(x, y, w, h, columns, rows, column_gap, row_gap, n, size)
         /\ UNCHANGED <<auxVars, compVars, animVars, stopObs, animArgs, app, lastCall, scenario>>
    \/ /\ ContainerUpdate
       /\ UNCHANGED <<auxVars, compVars, animVars, stopObs, animArgs, app, lastCall, scenario>>

SpecGrid == Init /\ [][NextGrid]_vars

\* containers with no child, or one, under every setting: built, then updated
NextEmpty ==
    \/ layout.kind = "none" /\ \E kind \in {"row", "column"}, x \in ContainerX, y \in ContainerY,
          w \in ContainerWidths, h \in ContainerHeights, gap \in Gaps,
          jc \in Justifies, ai \in Aligns, ws \in KidSeqs(1), cross \in ChildSizes :
         /\ NewFlex(kind, x, y, w, h, gap, jc, ai, ws, cross)
         /\ UNCHANGED <<auxVars, compVars, animVars, stopObs, animArgs, app, lastCall, scenario>>
    \/ layout.kind = "none" /\ \E x \in ContainerX, y \in ContainerY, w \in ContainerWidths,
          h \in ContainerHeights, columns \in 0..GridCols, rows \in GridRows,
          column_gap \in Gaps, row_gap \in Gaps, n \in 0..1, size \in ChildSizes :
         /\ NewGrid(x, y, w, h, columns, rows, column_gap, row_gap, n, size)
         /\ UNCHANGED <<auxVars, compVars, animVars, stopObs, animArgs, app, lastCall, scenario>>
    \/ layout.kind = "none" /\ \E x \in ContainerX, y \in ContainerY, w \in ContainerWidths,
          h \in ContainerHeights, ai \in Aligns, ws \in KidSeqs(1) :
         /\ NewStack(x, y, w, h, ai, ws)
         /\ UNCHANGED <<auxVars, compVars, animVars, stopObs, animArgs, app, lastCall, scenario>>
    \/ /\ ContainerUpdate
       /\ UNCHANGED <<auxVars, compVars, animVars, stopObs, animArgs, app, lastCall, scenario>>

SpecEmpty == Init /\ [][NextEmpty]_vars

\* the life of a container: built, updated, and between the updates given and
\* deprived of children, resized, moved, and given props
NextRelayout ==
    \/ layout.kind = "none" /\ \E kind \in {"row", "column"}, x \in ContainerX, y \in ContainerY,
          w \in ContainerWidths, gap \in Gaps, jc \in {"center", "space-between"},
          ai \in {"start", "stretch"}, ws \in KidSeqs(RelayoutKids - 1) :
         /\ NewFlex(kind, x, y, w, w, gap, jc, ai, ws, 4)
         /\ UNCHANGED <<auxVars, compVars, animVars, stopObs, animArgs, app, lastCall, scenario>>
    \/ layout.kind = "none" /\ \E x \in ContainerX, y \in ContainerY, w \in ContainerWidths,
          columns \in 1..2, gap \in Gaps, n \in 0..(RelayoutKids - 1) :
         /\ NewGrid(x, y, w, w, columns, None, gap, gap, n, 4)
         /\ UNCHANGED <<auxVars, compVars, animVars, stopObs, animArgs, app, lastCall, scenario>>
    \/ layout.kind = "none" /\ \E x \in ContainerX, y \in ContainerY, w \in ContainerWidths,
          ai \in {"center", "stretch"}, ws \in KidSeqs(RelayoutKids - 1) :
         /\ NewStack(x, y, w, w, ai, ws)
         /\ UNCHANGED <<auxVars, compVars, animVars, stopObs, animArgs, app, lastCall, scenario>>
    \/ /\ ContainerUpdate
       /\ UNCHANGED <<auxVars, compVars, animVars, stopObs, animArgs, app, lastCall, scenario>>
    \/ \E w \in ChildSizes :
         /\ layout.kind # "none" /\ Len(layout.children) < RelayoutKids
         /\ ContainerAddChild(w, w)
         /\ UNCHANGED <<auxVars, compVars, animVars, stopObs, animArgs, app, lastCall, scenario>>
    \/ \E k \in 1..RelayoutKids :
         /\ ContainerRemoveChild(k)
         /\ UNCHANGED <<auxVars, compVars, animVars, stopObs, animArgs, app, lastCall, scenario>>
    \/ \E w \in ContainerWidths :
         /\ ContainerSetSize(w, w)
         /\ UNCHANGED <<auxVars, compVars, animVars, stopObs, animArgs, app, lastCall, scenario>>
    \/ \E x \in ContainerX \cup {0} :
         /\ ContainerSetPosition(x, x)
         /\ UNCHANGED <<auxVars, compVars, animVars, stopObs, animArgs, app, lastCall, scenario>>
    \/ \E g \in Gaps :
         /\ ContainerSetProp("gap", g)
         /\ UNCHANGED <<auxVars, compVars, animVars, stopObs, animArgs, app, lastCall, scenario>>

SpecRelayout == Init /\ [][NextRelayout]_vars


\* the EventManager alone: callbacks come and go, events are handled
NextEvents ==
    \/ \E k \in {"key_down", "mouse_down"}, cb \in {"f", "once"} :
         /\ RegisterCallback(k, cb)
         /\ UNCHANGED <<compVars, animVars, stopObs, animArgs, layout, app, easeCall, hooks,
                        lastCall, scenario>>
    \/ \E k \in {"key_down", "mouse_down"}, cb \in {"f", "once"} :
         /\ UnregisterCallback(k, cb)
         /\ UNCHANGED <<compVars, animVars, stopObs, animArgs, layout, app, easeCall, hooks,
                        lastCall, scenario>>
    \/ \E e \in PygameEvents :
         /\ HandleEvent(e)
         /\ UNCHANGED <<compVars, animVars, stopObs, animArgs, layout, app, easeCall, hooks,
                        lastCall, scenario>>

SpecEvents == Init /\ [][NextEvents]_vars

\* the event kinds an application can name when it registers a callback
EventKinds ==
    {"mouse_down", "mouse_up", "mouse_move", "mouse_wheel", "key_down", "key_up",
     "resize", "quit"}

\* the host loop as a router: callbacks are registered through
\* Application.on_event, the application runs, pygame delivers events
NextRoute ==
    \/ /\ CreateWindow
       /\ UNCHANGED <<auxVars, animVars, stopObs, animArgs, layout, lastCall, scenario>>
    \/ \E k \in EventKinds, cb \in {"f", "g"} :
         /\ RegisterCallback(k, cb)
         /\ UNCHANGED <<compVars, animVars, stopObs, animArgs, layout, app, easeCall, hooks,
                        lastCall, scenario>>
    \/ /\ RunStart
       /\ UNCHANGED <<auxVars, animVars, stopObs, animArgs, layout, lastCall, scenario>>
    \/ \E e \in PygameEvents :
         /\ LoopEvent(e)
         /\ lastCall' = [op |-> "event", event |-> e, callbacks |-> em.callbacks]
         /\ UNCHANGED <<compVars, animVars, stopObs, animArgs, layout, easeCall, hooks,
                        scenario>>

SpecRoute == Init /\ [][NextRoute]_vars

\* the easing functions called by name, then one animation under any name
NextEasing ==
    \/ \E name \in DOMAIN FUNCTIONS \cup UnknownEasings, t \in Ends :
         /\ animCall = "init"
         /\ ApplyEasing(name, t)
         /\ UNCHANGED <<compVars, animVars, stopObs, animArgs, layout, app, em, hooks,
                        lastCall, scenario>>
    \/ \E name \in DOMAIN FUNCTIONS \cup UnknownEasings, t \in Ends :
         /\ animCall = "init"
         /\ GetFunctionCall(name, t)
         /\ UNCHANGED <<compVars, animVars, stopObs, animArgs, layout, app, em, hooks,
                        lastCall, scenario>>
    \/ \E to \in ToValues, d \in Durations, easing \in Easings \cup UnknownEasings :
         /\ anims = <<>>
         /\ Animate("box", "x", to, d, easing, "none")
         /\ animCall' = "animate"
         /\ UNCHANGED <<auxVars, stopObs, pauseObs, animArgs, layout, app, compVars,
                        lastCall, scenario>>
    \/ /\ AnimatorUpdate
       /\ animCall' = "update"
       /\ UNCHANGED <<auxVars, stopObs, pauseObs, animArgs, layout, app, compVars,
                      lastCall, scenario>>
    \/ /\ Tick
       /\ animCall' = "tick"
       /\ UNCHANGED <<auxVars, stopObs, pauseObs, animArgs, layout, app, compVars,
                      lastCall, scenario>>

SpecEasing == Init /\ [][NextEasing]_vars

\* the update traversal: add_child and set_state on any components, and update()
\* on any component, with the order of the update() calls it made
NextVisit ==
    \/ \E p \in Comp, c \in Comp :
         /\ TotalLinks < MaxLinks
         /\ AddChild(p, c)
         /\ lastCall' = Call("add_child", c, c \in Range(children[p]), FALSE)
         /\ UNCHANGED <<scenario, animVars, extVars>>
    \/ \E c \in Comp, k \in Keys, v \in Values :
         /\ SetState(c, k, v)
         /\ lastCall' = Call("set_state", c, FALSE, FALSE)
         /\ UNCHANGED <<scenario, animVars, extVars>>
    \/ \E c \in Comp :
         /\ Update(c)
         /\ lastCall' = [op |-> "update", c |-> c, order |-> UpdateOrder(c),
                         skipped |-> ~needs_update[c], raised |-> UpdateRaises(c)]
         /\ UNCHANGED <<scenario, animVars, extVars>>

SpecVisit == Init /\ [][NextVisit]_vars

\* the lifecycle hooks: components of the base class and of subclasses whose
\* hooks call set_state, under update, set_state and set_prop
NextHooks ==
    \/ \E c \in LifeComps, hook \in {"component_did_mount", "component_did_update"} :
         /\ Subclass(c, hook)
         /\ lastCall' = Call("construct", c, FALSE, FALSE)
         /\ UNCHANGED <<compVars, scenario, animVars, stopObs, animArgs, layout, app,
                        em, easeCall>>
    \/ \E c \in LifeComps :
         /\ Update(c)
         /\ lastCall' = [op |-> "update", c |-> c, order |-> UpdateOrder(c),
                         log |-> UpdateLog(c), raised |-> UpdateRaises(c),
                         first |-> {d \in LifeComps : ~everUpdated[d]}]
         /\ UNCHANGED <<scenario, animVars, extVars>>
    \/ \E c \in LifeComps, k \in Keys, v \in Values :
         /\ SetState(c, k, v)
         /\ lastCall' = Call("set_state", c, FALSE, FALSE)
         /\ UNCHANGED <<scenario, animVars, extVars>>
    \/ \E c \in LifeComps, k \in Keys, v \in Values :
         /\ SetProp(c, k, v)
         /\ lastCall' = Call("set_prop", c, FALSE, FALSE)
         /\ UNCHANGED <<scenario, animVars, extVars>>

SpecHooks == Init /\ [][NextHooks]_vars

\* the callbacks of the re-entrant animator: a counter, a chained animation, and
\* the two cancellations
ReentrantCallbacks == {"count", "chain", "stop_all", "stop_target"}
\* the targets of the re-entrant animator
ReentrantTargets == {"box", "card1"}

\* the observer after an Animator.update() whose callbacks cancel: what the
\* callbacks took off the list (as it was when the update returned), and the
\* cancelled animations advanced after their cancellation
ReentrantStops ==
    IF ~running THEN stopObs
    ELSE LET r == UpdatePass(Start(TRUE), 1, <<>>)
         IN [snap |-> [i \in r.cancelled |-> r.anims[i]] @@ stopObs.snap,
             touched |-> stopObs.touched \cup r.after
                         \cup (r.advanced \cap DOMAIN stopObs.snap)]

\* the animator with callbacks that call back into it: animate, update, the clock
NextReentrant ==
    \/ \E t \in ReentrantTargets, d \in Durations, cb \in ReentrantCallbacks :
         /\ Len(anims) + Pending + (IF cb = "chain" THEN 2 ELSE 1) <= MaxAnims + 1
         /\ Animate(t, "x", 8, d, "linear", cb)
         /\ animCall' = "animate"
         /\ UNCHANGED <<auxVars, stopObs, pauseObs, animArgs, layout, app, compVars, lastCall,
                        scenario>>
    \/ /\ AnimatorUpdate
       /\ animCall' = "update"
       /\ stopObs' = ReentrantStops
       /\ UNCHANGED <<auxVars, pauseObs, animArgs, layout, app, compVars, lastCall, scenario>>
    \/ /\ Tick
       /\ animCall' = "tick"
       /\ UNCHANGED <<auxVars, stopObs, pauseObs, animArgs, layout, app, compVars, lastCall,
                      scenario>>

SpecReentrant == Init /\ [][NextReentrant]_vars

\* a Row nested in a Row or a Grid: built, and updated from the root or from
\* the nested container
NextNested ==
    \/ layout.kind = "none" /\ \E kind \in {"row", "grid"}, w \in ContainerWidths,
          gap \in Gaps, jc \in {"start", "center", "end"}, ai \in Aligns,
          n \in 1..NestedKids, slot \in 1..NestedKids, ih \in ChildSizes,
          ijc \in {"start", "end"}, iai \in {"start", "center"},
          ws \in KidSeqs(NestedKids) :
         /\ slot <= n
         /\ kind = "grid" => (jc = "start" /\ ai = "start")
         /\ NewNested(kind, w, 10, gap, jc, ai, n, slot, 20, ih, ijc, iai, ws)
         /\ UNCHANGED <<auxVars, compVars, animVars, stopObs, animArgs, app, lastCall, scenario>>
    \/ /\ NestedUpdate
       /\ UNCHANGED <<auxVars, compVars, animVars, stopObs, animArgs, app, lastCall, scenario>>
    \/ /\ InnerUpdate
       /\ UNCHANGED <<auxVars, compVars, animVars, stopObs, animArgs, app, lastCall, scenario>>

SpecNested == Init /\ [][NextNested]_vars

\* the button numbers of the events of the input-state history: below, inside
\* and above the list of three
ButtonNumbers == {0, 1, 3, 4}

\* the most recent events so far: per key and per button 1..3 "down", "up" or
\* "none", the position of the last MOUSEMOTION, and the flags before the last
\* event
History ==
    IF lastCall.op = "handle_event" THEN lastCall
    ELSE [op |-> "handle_event", keys |-> [k \in KeyCodes |-> "none"],
          buttons |-> [b \in 1..3 |-> "none"], moved |-> <<0, 0>>,
          before |-> em.mouse_buttons]

\* the history after the event
Recorded(event) ==
    LET h == [History EXCEPT !.before = em.mouse_buttons]
    IN IF event.type = "MOUSEMOTION" THEN [h EXCEPT !.moved = event.pos]
       ELSE IF event.type \in {"MOUSEBUTTONDOWN", "MOUSEBUTTONUP"}
       THEN IF event.button \in 1..3
            THEN [h EXCEPT !.buttons[event.button] =
                              IF event.type = "MOUSEBUTTONDOWN" THEN "down" ELSE "up"]
            ELSE h
       ELSE IF event.type \in {"KEYDOWN", "KEYUP"}
       THEN [h EXCEPT !.keys[event.key] =
                         IF event.type = "KEYDOWN" THEN "down" ELSE "up"]
       ELSE h

\* the EventManager as a tracker of input state: events of every mapped type are
\* handled, with button numbers inside and outside 1..3
NextButtons ==
    \/ \E event \in {PygameEvent("MOUSEMOTION", p, None, None) : p \in Cursors \cup {<<1, 2>>}}
                   \cup {PygameEvent(t, p, b, None) :
                           t \in {"MOUSEBUTTONDOWN", "MOUSEBUTTONUP"}, p \in Cursors,
                           b \in ButtonNumbers}
                   \cup {PygameEvent(t, <<0, 0>>, None, k) :
                           t \in {"KEYDOWN", "KEYUP"}, k \in KeyCodes} :
         /\ HandleEvent(event)
         /\ lastCall' = Recorded(event)
         /\ UNCHANGED <<compVars, animVars, stopObs, animArgs, layout, app, easeCall, hooks,
                        scenario>>

SpecButtons == Init /\ [][NextButtons]_vars

\* one animation between float values: created, then advanced as the clock
\* moves on or stands still
NextFloat ==
    \/ \E a \in FloatValues, b \in FloatValues, d \in {2, 4},
          easing \in {"linear", "ease_in_back", "ease_out_quad"} :
         /\ easeCall.op = "init"
         /\ FloatAnimate(a, b, d, easing)
         /\ UNCHANGED <<compVars, animVars, stopObs, animArgs, layout, app, em, hooks,
                        lastCall, scenario>>
    \/ \E dt \in 0..2 :
         /\ FloatUpdate(dt)
         /\ UNCHANGED <<compVars, animVars, stopObs, animArgs, layout, app, em, hooks,
                        lastCall, scenario>>

SpecFloat == Init /\ [][NextFloat]_vars

\* the animator with animations of duration 0 among the others: animate,
\* update, the clock
NextZero ==
    \/ \E d \in {0, 1}, cb \in {"none", "count"} :
         /\ Len(anims) < MaxAnims
         /\ Animate("box", "x", 8, d, "linear", cb)
         /\ animCall' = "animate"
         /\ UNCHANGED <<auxVars, stopObs, pauseObs, animArgs, layout, app, compVars, lastCall,
                        scenario>>
    \/ /\ AnimatorUpdate
       /\ animCall' = (IF UpdatePass(Start(TRUE), 1, <<>>).raised
                       THEN "update raised" ELSE "update")
       /\ UNCHANGED <<auxVars, stopObs, pauseObs, animArgs, layout, app, compVars, lastCall,
                      scenario>>
    \/ /\ Tick
       /\ animCall' = "tick"
       /\ UNCHANGED <<auxVars, stopObs, pauseObs, animArgs, layout, app, compVars, lastCall,
                      scenario>>

SpecZero == Init /\ [][NextZero]_vars

\* one Transition.shake: called, then the animator is updated as the clock moves
NextShake ==
    \/ \E x \in ShakeValues, intensity \in {Lit(10), Lit(3)} :
         /\ easeCall.op = "init"
         /\ Shake(x, intensity)
         /\ UNCHANGED <<compVars, animVars, stopObs, animArgs, layout, app, em, hooks,
                        lastCall, scenario>>
    \/ \E q \in 0..4 :
         /\ ShakeUpdate(q)
         /\ UNCHANGED <<compVars, animVars, stopObs, animArgs, layout, app, em, hooks,
                        lastCall, scenario>>

SpecShake == Init /\ [][NextShake]_vars

\* ------------------------------------------------------------------ claims
\* C1: component_did_mount is invoked exactly once over a component's lifetime,
\* in the first update() made on it (by the host or by its parent's update()),
\* whatever update, set_state, set_prop, add_child and remove_child calls are
\* made, and mounted never returns from true to false.
C1_SingleMount ==
    \A c \in Comp :
        /\ mountCalls[c] = (IF everUpdated[c] THEN 1 ELSE 0)
        /\ mounted[c] = everUpdated[c]
        /\ everMounted[c] => mounted[c]

\* every component of the lifecycle is mounted once, one of them was mutated
\* through set_state and set_prop, and the last update() call found its receiver
\* clean: that receiver had been updated before
C1_Witness ==
    /\ \A c \in LifeComps : mounted[c] /\ mountCalls[c] = 1 /\ ~needs_update[c]
    /\ \E c \in LifeComps : state[c]["k"] = "v" /\ props[c]["k"] = "v"
    /\ didUpdateCalls = 0

\* C2: on a mounted component with needs_update = false, one set_state or
\* set_prop (also with the value the key already has) followed by update()
\* invokes component_did_update exactly once on it; a further update() with no
\* mutation in between invokes it not at all.
C2_MutationForcesUpdate ==
    /\ scenario.phase = "updated" => didUpdateCalls = 1
    /\ scenario.phase = "again" => didUpdateCalls = 0

\* the mutation wrote the value the key already had, and two updates followed
C2_Witness == scenario.phase = "again" /\ scenario.same

\* C3: remove_child(child) on a parent that holds child invokes the child's
\* component_will_unmount hook (before it unlinks the child).
C3_UnmountHookOnRemove ==
    (lastCall.op = "remove_child" /\ lastCall.hit) => willUnmountCalls[lastCall.c] >= 1

Occurrences(c) ==
    Cardinality({<<p, i>> \in Comp \X (1..MaxLinks + 1) :
                   i <= Len(children[p]) /\ children[p][i] = c})

\* C4: after any add_child and remove_child calls the structure is a tree without
\* sharing: a component is at most once in at most one children list, every
\* member of p.children has parent p, a component in no list has parent None.
C4_TreeNoSharing ==
    \A c \in Comp :
        /\ Occurrences(c) <= 1
        /\ \A p \in Comp : c \in Range(children[p]) => parent[c] = p
        /\ Occurrences(c) = 0 => parent[c] = None

RECURSIVE Reach(_, _)
Reach(frontier, seen) ==
    IF frontier \subseteq seen THEN seen
    ELSE Reach(UNION {Range(children[c]) : c \in frontier \ seen}, seen \cup frontier)

\* the components reachable from the root through children links
UnderRoot == Reach({root_component}, {})

\* C5: once set_root_component(root) has returned, and after any add_child calls
\* that follow, every component reachable from root through children links holds
\* the window's Context.
C5_ContextReachesSubtree ==
    (root_component # None /\ rootReturned) =>
        \A c \in UnderRoot : context[c] = WindowContext

\* the last call attached, under the root, a component that already had a child
C5_Witness ==
    /\ root_component # None /\ rootReturned
    /\ lastCall.op = "add_child" /\ ~lastCall.raised
    /\ lastCall.c \in UnderRoot \ {root_component}
    /\ \E g \in Range(children[lastCall.c]) :
         g \notin {root_component, lastCall.c} /\ context[g] = WindowContext

\* C6: for an Animation with a completion callback the completion flag is set at
\* most once and on_complete is invoked exactly once, inside the update call that
\* first computes progress >= 1.0, and never before the duration has elapsed.
C6_CallbackOnce ==
    \A i \in 1..Len(anims) :
        LET a == anims[i]
        IN /\ a.flagSets <= 1
           /\ a.is_complete = (a.flagSets = 1)
           /\ a.is_complete = a.sawDone
           /\ a.on_complete # "none" => a.cbCalls = (IF a.sawDone THEN 1 ELSE 0)
           /\ a.sawDone => now - a.start_time >= a.duration

\* a callback has fired, and the finished animation was advanced again afterwards
C6_Witness ==
    /\ stale.seen
    /\ \E i \in 1..Len(anims) : anims[i].on_complete # "none" /\ anims[i].cbCalls = 1

\* C7: an Animation.update call on an animation that has finished returns False,
\* writes nothing to the target and invokes no callback, at any clock value.
C7_FinishedStaysFinished ==
    stale.seen => (~stale.ret /\ stale.wrote = 0 /\ stale.fired = 0)

\* a finished animation with a callback was advanced again, later on the clock
C7_Witness ==
    /\ stale.seen
    /\ \E i \in 1..Len(anims) :
         /\ anims[i].is_complete /\ anims[i].on_complete # "none"
         /\ now - anims[i].start_time > anims[i].duration

\* C8: an animation that had elapsed e < duration at pause() has the same elapsed
\* e in the first update() made right after resume(), however long the pause
\* was, and that update does not complete it.
C8_ResumePreservesElapsed ==
    pauseObs.phase = "advanced" =>
        \A i \in DOMAIN pauseObs.elapsed :
            LET e == pauseObs.elapsed[i]
            IN e < anims[i].duration =>
                   (now - anims[i].start_time = e /\ ~anims[i].is_complete)

C10_NoFinishedInList ==
    animCall = "update" =>
        /\ \A k \in 1..Len(animations) : ~anims[animations[k]].is_complete
        /\ \A i \in 1..Len(anims) : ~anims[i].is_complete => i \in Range(animations)
        /\ \A j, k \in 1..Len(animations) : j < k => animations[j] < animations[k]

\* the update removed a finished animation and kept a running one
C10_Witness ==
    /\ animCall = "update"
    /\ Len(animations) >= 1
    /\ \E i \in 1..Len(anims) : anims[i].is_complete

\* C11: while the Animator is paused, Animator.update() writes no target
\* property, fires no callback, changes no animation and leaves the active list
\* as it was, however much time has passed.
C11_PausedUpdateNoOp ==
    [][animCall' = "update_paused" => UNCHANGED <<anims, animations, attrs>>]_vars

\* update() was called while paused on an active animation whose duration had
\* run out on the clock, and the animation is neither finished nor dropped
C11_Witness ==
    /\ animCall = "update_paused" /\ ~running
    /\ \E k \in 1..Len(animations) :
         LET a == anims[animations[k]]
         IN /\ now - a.start_time >= a.duration
            /\ ~a.is_complete /\ a.cbCalls = 0
            /\ attrs[a.target][a.property_name] = a.start_value

\* C12: stop_all() leaves the active list empty and fires no callback, and no
\* animation that was active then is advanced, written to its target, completed
\* or called back by a later Animator.update().
C12_StopAllSilences ==
    /\ animCall = "stop_all" => animations = <<>>
    /\ stopObs.touched = {}
    /\ \A i \in DOMAIN stopObs.snap :
         anims[i] = stopObs.snap[i] /\ i \notin Range(animations)

\* an animation with a callback was stopped before its duration ran out, the
\* clock went past its duration, and an update() advanced a later animation
C12_Witness ==
    /\ animCall = "update" /\ Len(animations) >= 1
    /\ \E i \in DOMAIN stopObs.snap :
         /\ anims[i].on_complete # "none" /\ ~anims[i].is_complete
         /\ anims[i].cbCalls = 0
         /\ now - anims[i].start_time >= anims[i].duration

\* C13: stop_animations_for_target(t) takes off the active list exactly the
\* animations whose target is the object t itself (not those of a distinct
\* object that compares equal to t), fires no callback, and leaves the other
\* animations on the list in their order with their fields unchanged.
C13_StopByIdentity ==
    animArgs.op = "stop_animations_for_target" =>
        /\ animations = SelectSeq(animArgs.animations,
                                  LAMBDA i : anims[i].target # animArgs.target)
        /\ anims = animArgs.anims

\* C14: animate(target, property, to_value, ...) records as start value the
\* value the target's property has at the call (0 when the target lacks it),
\* appends exactly one new Animation at the end of the active list and returns
\* it, and the target's attributes stay as they are until an Animator.update().
C14_AnimateRegisters ==
    [][/\ animCall' = "animate" =>
            LET n == Len(anims) + 1
                t == animArgs'.target
                pn == animArgs'.property_name
            IN /\ Len(anims') = n
               /\ SubSeq(anims', 1, Len(anims)) = anims
               /\ animations' = Append(animations, n)
               /\ animArgs'.returned = n
               /\ anims'[n].target = t /\ anims'[n].property_name = pn
               /\ anims'[n].end_value = animArgs'.to_value
               /\ anims'[n].start_value =
                      (IF pn \in DOMAIN attrs[t] THEN attrs[t][pn] ELSE 0)
               /\ ~anims'[n].is_complete
               /\ attrs' = attrs
       /\ attrs' # attrs => animCall' = "update"]_vars

\* animate() was called on a property that an earlier animation had moved off 0
C14_Witness ==
    /\ animCall = "animate" /\ animArgs.property_name = "x"
    /\ anims[animArgs.returned].start_value # 0
    /\ attrs[animArgs.target]["x"] = anims[animArgs.returned].start_value
    /\ Len(animations) >= 2

\* C16: for a target that lacks the animated property every Animation.update
\* skips the write and creates no such property, and the animation is completed,
\* with its callback fired once, by the first update() that finds elapsed >=
\* duration and by none before it, as for a property the target holds.
C16_MissingPropertyCompletes ==
    \A i \in 1..Len(anims) :
        LET a == anims[i]
        IN /\ a.property_name = "y" => "y" \notin DOMAIN attrs[a.target]
           /\ a.is_complete => now - a.start_time >= a.duration
           /\ (animCall = "update" /\ now - a.start_time >= a.duration) => a.is_complete
           /\ a.on_complete # "none" => a.cbCalls = (IF a.is_complete THEN 1 ELSE 0)

\* an animation of the missing property completed and called back, after an
\* earlier update() had advanced it without completing it
C16_Witness ==
    \E i \in 1..Len(anims) :
        /\ anims[i].property_name = "y" /\ anims[i].on_complete = "count"
        /\ anims[i].is_complete /\ anims[i].cbCalls = 1
        /\ anims[i].duration > 1
        /\ DOMAIN attrs[anims[i].target] = {"x"}

RECURSIVE SumCbCalls(_, _)
SumCbCalls(g, k) == IF k = 0 THEN 0 ELSE anims[g[k]].cbCalls + SumCbCalls(g, k - 1)

\* C15: animate_multiple(target, properties, ..., on_complete) creates one
\* Animation per entry of the mapping, in the mapping's order, and attaches
\* on_complete to the last one only: the others have no callback, and on_complete
\* has fired once when the last-created animation is complete and not before.
C15_CallbackOnLastOnly ==
    animArgs.op = "animate_multiple" =>
        LET g == animArgs.returned
            ps == animArgs.properties
            n == Len(g)
        IN /\ n = Len(ps)
           /\ animCall = "animate_multiple" /\ n > 0 => g[n] = Len(anims)
           /\ \A k \in 1..n :
                /\ k > 1 => g[k] = g[k-1] + 1
                /\ anims[g[k]].property_name = ps[k].name
                /\ anims[g[k]].end_value = ps[k].to
                /\ anims[g[k]].on_complete =
                      (IF k = n THEN animArgs.on_complete ELSE "none")
                /\ k < n => anims[g[k]].cbCalls = 0
           /\ (n > 0 /\ animArgs.on_complete # "none") =>
                SumCbCalls(g, n) = (IF anims[g[n]].is_complete THEN 1 ELSE 0)

\* two animations created by one animate_multiple call with a callback are both
\* complete, and the callback has fired
C15_Witness ==
    /\ animArgs.op = "animate_multiple" /\ animArgs.on_complete = "count"
    /\ Len(animArgs.returned) = 2
    /\ \A k \in 1..2 : anims[animArgs.returned[k]].is_complete
    /\ anims[animArgs.returned[2]].cbCalls = 1

\* C17: every iteration of Application.run routes the pending events, then
\* advances the Animator, then runs the tree update pass, then renders.
C17_PhaseOrder ==
    app.pc = "flip" => app.trace = <<"events", "animator", "update", "render">>

\* the coordinate f is exactly the whole number n
IsWhole(f, n) == f[2] # 0 /\ f[1] = n * f[2]

\* C18: a Row with exactly one child and justify_content = 'space-between'
\* places the child at x = row.x, and the Column at y = column.y, for every
\* container size, child size and gap, with no division by zero.
C18_SingleChildAtLeadingEdge ==
    (layout.kind \in {"row", "column"} /\ layout.mounted
       /\ layout.justify_content = "space-between" /\ Len(layout.children) = 1) =>
        IF layout.kind = "row"
        THEN IsWhole(layout.children[1].x, layout.x)
        ELSE IsWhole(layout.children[1].y, layout.y)

\* a Row with a gap, wider than its only child, was laid out space-between
C18_Witness ==
    /\ layout.kind = "row" /\ layout.mounted
    /\ layout.justify_content = "space-between" /\ Len(layout.children) = 1
    /\ layout.gap > 0 /\ layout.children[1].width < layout.width
    /\ layout.children[1].x = Whole(layout.x)

\* C19: a Row or Column with N >= 2 children and justify_content =
\* 'space-between' puts the first child's leading edge on the container's
\* leading edge and the last child's trailing edge on the container's trailing
\* edge, with equal spaces between consecutive children, for every gap.
C19_SpaceBetweenTouchesEdges ==
    (layout.kind \in {"row", "column"} /\ layout.mounted
       /\ layout.justify_content = "space-between" /\ Len(layout.children) >= 2) =>
        LET cs == layout.children
            n == Len(cs)
            row == layout.kind = "row"
            pos(k) == IF row THEN cs[k].x ELSE cs[k].y
            size(k) == IF row THEN cs[k].width ELSE cs[k].height
            lead == IF row THEN layout.x ELSE layout.y
            extent == IF row THEN layout.width ELSE layout.height
            den == pos(1)[2]
            space(k) == pos(k + 1)[1] - (pos(k)[1] + size(k) * den)
        IN /\ \A k \in 1..n : pos(k)[2] = den /\ den # 0
           /\ IsWhole(pos(1), lead)
           /\ pos(n)[1] + size(n) * den = (lead + extent) * den
           /\ \A k \in 1..(n - 2) : space(k) = space(k + 1)

\* the smallest whole number that is at least n / d
Ceil(n, d) == CHOOSE r \in 0..n : r * d >= n /\ (r - 1) * d < n

\* C20: Grid places the child at index i in column i % columns and row
\* i // columns, at x = grid.x + col * (cell_width + column_gap) and
\* y = grid.y + row * (cell_height + row_gap), the rows being
\* ceil(childCount / columns) when rows is not given.
C20_GridRowMajor ==
    (layout.kind = "grid" /\ layout.mounted) =>
        LET cs == layout.children
            n == Len(cs)
            rows == IF layout.rows = None THEN Ceil(n, layout.columns) ELSE layout.rows
            cell_width == (layout.width - (layout.columns - 1) * layout.column_gap)
                          \div layout.columns
            cell_height == (layout.height - (rows - 1) * layout.row_gap) \div rows
        IN \A i \in 0..(n - 1) :
             /\ cs[i + 1].x = Whole(layout.x + (i % layout.columns)
                                                * (cell_width + layout.column_gap))
             /\ cs[i + 1].y = Whole(layout.y + (i \div layout.columns)
                                                * (cell_height + layout.row_gap))

\* columns = 3 and 7 children: the child at index 5 is in row 1, column 2
C20_Witness ==
    /\ layout.kind = "grid" /\ layout.mounted
    /\ layout.columns = 3 /\ Len(layout.children) = 7 /\ layout.rows = None
    /\ layout.column_gap > 0 /\ layout.row_gap > 0
    /\ layout.children[6].x
         = Whole(layout.x + 2 * (layout.children[6].width + layout.column_gap))
    /\ layout.children[6].y
         = Whole(layout.y + 1 * (layout.children[6].height + layout.row_gap))

\* what C21 says of one layout_children() run of a stretching Row or Column
StretchEffect ==
    \A k \in 1..Len(layout.children) :
        LET before == layout.children[k]
            after == layout'.children[k]
        IN IF layout.kind = "column"
           THEN /\ after.width = layout.width
                /\ after.x = Whole(layout.x)
                /\ after.height = before.height
           ELSE /\ after.height = layout.height
                /\ after.width = before.width

C22_EmptyLayoutNoOp ==
    [][(layout.kind # "none" /\ layout.children = <<>> /\ layout' # layout)
         => layout' = [layout EXCEPT !.mounted = TRUE, !.needs_update = FALSE]]_vars

\* an empty Grid of zero columns was mounted and nothing was raised
C22_Witness ==
    /\ layout.kind = "grid" /\ layout.columns = 0 /\ layout.rows = None
    /\ layout.children = <<>>
    /\ layout.mounted /\ ~layout.raised

\* the children of before are the children of after, but for one child added
\* at the end or one child taken away
SameGeometry(before, after) ==
    \/ after = before
    \/ /\ Len(after) = Len(before) + 1
       /\ \A j \in 1..Len(before) : after[j] = before[j]
    \/ /\ Len(after) = Len(before) - 1
       /\ \E k \in 1..Len(before) :
            \A j \in 1..Len(after) : after[j] = IF j < k THEN before[j] ELSE before[j + 1]

\* C23: a layout container runs layout_children only inside its mount hook, on
\* its first update(): no operation before that update, and no operation after
\* it (add_child, remove_child, set_size, set_position, set_prop, further
\* updates), changes the position or the size of a child
C23_LayoutOnlyAtMount ==
    [][(layout.kind # "none" /\ layout'.mounted = layout.mounted)
         => SameGeometry(layout.children, layout'.children)]_vars

\* a mounted container was given a child afterwards and updated again: the
\* child laid out at the mount sits inside the container, the late one still
\* where it was constructed
C23_Witness ==
    /\ layout.kind = "row" /\ layout.mounted /\ ~layout.needs_update
    /\ Len(layout.children) = 2
    /\ layout.children[1].x # Whole(0)
    /\ layout.children[2].x = Whole(0) /\ layout.children[2].y = Whole(0)
    /\ layout.x = 0 /\ layout.width = 31

\* the tracked input state an event leaves behind, as the kinds are described:
\* mouse_move sets the cursor, mouse_down / mouse_up set and clear the flag of
\* buttons 1..3, key_down / key_up add and remove the key
ExpectedInput(T, e) ==
    IF e.type = "MOUSEMOTION" THEN [T EXCEPT !.mouse_position = e.pos]
    ELSE IF e.type = "MOUSEBUTTONDOWN" /\ e.button \in 1..3
    THEN [T EXCEPT !.mouse_buttons[e.button] = TRUE]
    ELSE IF e.type = "MOUSEBUTTONUP" /\ e.button \in 1..3
    THEN [T EXCEPT !.mouse_buttons[e.button] = FALSE]
    ELSE IF e.type = "KEYDOWN" THEN [T EXCEPT !.keys_pressed = @ \cup {e.key}]
    ELSE IF e.type = "KEYUP" THEN [T EXCEPT !.keys_pressed = @ \ {e.key}]
    ELSE T

\* C24: handle_event updates the tracked input state (cursor position, the three
\* button flags, the pressed keys) for every mouse_move, mouse_down, mouse_up,
\* key_down and key_up event, whether or not a callback is registered for the
\* kind, and every callback of the event already sees the updated state
C24_StateBeforeCallbacks ==
    [][(em'.op = "handle_event" /\ em' # em
          /\ em'.event.type \in {"MOUSEMOTION", "MOUSEBUTTONDOWN", "MOUSEBUTTONUP",
                                 "KEYDOWN", "KEYUP"})
         => LET want == ExpectedInput(Tracked(em), em'.event)
            IN /\ Tracked(em') = want
               /\ \A i \in 1..Len(em'.log) : em'.log[i].seen = want]_vars

\* a mouse_down for which nothing is registered set its flag, and the callback
\* of a later key_down saw the key already pressed
C24_Witness ==
    /\ em.op = "handle_event" /\ em.event.type = "KEYDOWN"
    /\ "mouse_down" \notin DOMAIN em.callbacks
    /\ em.mouse_buttons[3]
    /\ Len(em.log) = 1 /\ em.log[1].seen.keys_pressed = {"a"}

\* the callbacks the last handle_event invoked, in the order of the calls
Invoked(E) == [i \in 1..Len(E.log) |-> E.log[i].cb]

\* C25: the callbacks registered for a kind are invoked once per handled event
\* of that kind, in registration order, with the raw event as argument, and no
\* callback of another kind is; after unregister_callback a callback is no
\* longer in the list of that kind
C25_RegistrationOrder ==
    [][/\ (em'.op = "handle_event" /\ em' # em /\ GetEventType(em'.event) # "")
          => LET kind == GetEventType(em'.event)
             IN /\ Invoked(em') = IF kind \in DOMAIN em.callbacks
                                  THEN em.callbacks[kind] ELSE <<>>
                /\ \A i \in 1..Len(em'.log) : em'.log[i].arg = em'.event
       /\ (em'.op = "unregister_callback" /\ em' # em /\ ~em'.raised
             /\ em'.event.kind \in DOMAIN em'.callbacks)
          => em'.event.cb \notin Range(em'.callbacks[em'.event.kind])]_vars

\* the kind under which an application registers for a pygame event
KindOf(type) ==
    IF type = "MOUSEWHEEL" THEN "mouse_wheel" ELSE GetEventType([type |-> type])

\* C26: each of the eight event kinds (mouse_down, mouse_up, mouse_move,
\* mouse_wheel, key_down, key_up, resize, quit) is recognised by the router: when
\* the host loop receives an event of the kind, every callback registered for
\* the kind is invoked
C26_EveryKindRouted ==
    (lastCall.op = "event" /\ KindOf(lastCall.event.type) # "")
      => LET kind == KindOf(lastCall.event.type)
             registered == IF kind \in DOMAIN lastCall.callbacks
                           THEN lastCall.callbacks[kind] ELSE <<>>
             invoked == IF em.op = "handle_event" /\ em.event = lastCall.event
                        THEN Invoked(em) ELSE <<>>
         IN invoked = registered

\* C27: Application.run with no root component attached is a fatal error: it
\* raises before any tick, both without a window and with a window on which
\* set_root_component was never called
C27_RunWithoutRootRaises ==
    (app.pc # "idle" /\ root_component = None) => app.pc = "raised"

\* C28: every function registered in Easing.FUNCTIONS returns exactly 0 at
\* t = 0 and exactly 1 at t = 1, the back and bounce families included
C28_ExactEndpoints ==
    (easeCall.op \in {"apply", "get_function"} /\ easeCall.name \in DOMAIN FUNCTIONS)
      => FEq[easeCall.result, easeCall.t]

\* C29: Easing.apply and Easing.get_function never raise for a name that is not
\* in Easing.FUNCTIONS and give what linear gives (apply returns t), and an
\* animation created with such a name advances linearly and completes normally
C29_UnknownIsLinear ==
    [][/\ (easeCall'.op \in {"apply", "get_function"}
             /\ easeCall'.name \notin DOMAIN FUNCTIONS)
          => /\ easeCall'.result = easeCall'.t
             /\ easeCall'.op = "get_function" => easeCall'.function = "linear"
       /\ (animCall' = "update" /\ animations # <<>> /\ running
             /\ anims[1].easing \notin DOMAIN FUNCTIONS)
          => LET a == anims[1]
                 elapsed == Min(now - a.start_time, a.duration)
             IN /\ attrs'[a.target][a.property_name]
                     = a.start_value
                       + ((a.end_value - a.start_value) * elapsed) \div a.duration
                /\ anims'[1].is_complete = (now - a.start_time >= a.duration)
                /\ anims'[1].is_complete => animations' = <<>>]_vars

\* an animation under the name 'wobble' stood half way at half its time and
\* is now complete at its end value, and get_function('') gave linear
C29_Witness ==
    /\ Len(anims) = 1 /\ anims[1].easing = "wobble" /\ anims[1].duration = 2
    /\ anims[1].is_complete /\ animations = <<>>
    /\ attrs["box"]["x"] = 8
    /\ easeCall.op = "get_function" /\ easeCall.name = ""
    /\ easeCall.function = "linear" /\ easeCall.result = FromInt[1]

\* the number of update() calls on d during the observed update
Visits(d) == Cardinality({i \in 1..Len(lastCall.order) : lastCall.order[i] = d})

\* the position of the first update() call on d during the observed update
FirstVisit(d) == CHOOSE i \in 1..Len(lastCall.order) :
                     lastCall.order[i] = d /\ \A j \in 1..(i - 1) : lastCall.order[j] # d

\* C30: every update() call on a component calls update() on each of its
\* children exactly once, in child-list order, whether or not the component's own
\* should_component_update returned true; so one update() on a component returns
\* having visited every component below it exactly once, parents before their
\* children.
C30_VisitOnce ==
    lastCall.op = "update" =>
        LET below == Reach({lastCall.c}, {})
        IN /\ ~lastCall.raised
           /\ Range(lastCall.order) = below
           /\ \A d \in below : Visits(d) = 1
           /\ \A p \in below : \A i \in 1..Len(children[p]) :
                  /\ FirstVisit(p) < FirstVisit(children[p][i])
                  /\ \A j \in (i + 1)..Len(children[p]) :
                         FirstVisit(children[p][i]) < FirstVisit(children[p][j])

\* what the observed update() did on the component d, in order
LogOf(d) == SelectSeq(lastCall.log, LAMBDA ev : ev[2] = d /\ ev[1] # "set_state")

\* C31: on the first update() call on a freshly constructed component,
\* component_did_mount is invoked first, then mounted becomes true, then
\* component_did_update is invoked in the same call, and needs_update is false
\* when the call returns.
C31_FirstUpdateOrder ==
    lastCall.op = "update" =>
        \A d \in lastCall.first \cap Range(lastCall.order) :
            /\ LogOf(d) = <<<<"component_did_mount", d>>, <<"mounted = True", d>>,
                            <<"component_did_update", d>>,
                            <<"needs_update = False", d>>>>
            /\ mounted[d] /\ ~needs_update[d]

\* a fresh component of the base class went through its first update
C31_Witness ==
    /\ lastCall.op = "update" /\ ~lastCall.raised
    /\ lastCall.c \in lastCall.first /\ hooks[lastCall.c] = "none"
    /\ Len(lastCall.log) = 4 /\ ~needs_update[lastCall.c]

\* C32: a state or prop mutation is never lost: after set_state or set_prop,
\* also when a hook of the component calls it during update(), needs_update is
\* true when the call returns or a component_did_update invocation on the
\* component has followed the mutation.
C32_MutationNeverLost ==
    /\ lastCall.op \in {"set_state", "set_prop"} => needs_update[lastCall.c]
    /\ lastCall.op = "update" =>
          \A i \in 1..Len(lastCall.log) :
              lastCall.log[i][1] = "set_state" =>
                  \/ needs_update[lastCall.log[i][2]]
                  \/ \E j \in (i + 1)..Len(lastCall.log) :
                        lastCall.log[j] = <<"component_did_update", lastCall.log[i][2]>>

\* C33: after Grid.layout_children with auto-computed rows, non-negative gaps
\* and a container at least as large as the total gaps, every child has exactly
\* the cell size, floor((extent - (count - 1) * gap) / count) per axis, whatever
\* size it had, and every child's box lies inside the container's box.
C33_GridCellsInside ==
    LET cs == layout.children
        n == Len(cs)
        columns == layout.columns
        rows == Ceil(n, columns)
    IN (/\ layout.kind = "grid" /\ layout.mounted /\ layout.rows = None /\ n > 0
        /\ layout.column_gap >= 0 /\ layout.row_gap >= 0
        /\ layout.width >= (columns - 1) * layout.column_gap
        /\ layout.height >= (rows - 1) * layout.row_gap) =>
         \A k \in 1..n :
             /\ cs[k].width = (layout.width - (columns - 1) * layout.column_gap)
                                \div columns
             /\ cs[k].height = (layout.height - (rows - 1) * layout.row_gap) \div rows
             /\ cs[k].x[2] = 1 /\ cs[k].y[2] = 1
             /\ cs[k].x[1] >= layout.x /\ cs[k].y[1] >= layout.y
             /\ cs[k].x[1] + cs[k].width <= layout.x + layout.width
             /\ cs[k].y[1] + cs[k].height <= layout.y + layout.height

\* seven children of size 4 or 7 in three columns and three rows with gaps, in a
\* container that the cells do not fill exactly: each got the cell size 5 by 5
C33_Witness ==
    /\ layout.kind = "grid" /\ layout.mounted /\ layout.rows = None
    /\ layout.columns = 3 /\ Len(layout.children) = 7
    /\ layout.column_gap = 2 /\ layout.row_gap = 2
    /\ layout.width = 20 /\ layout.height = 21
    /\ \A k \in 1..7 : layout.children[k].width = 5 /\ layout.children[k].height = 5

\* C34: cancellation is synchronous also when re-entrant: the animations a
\* completion callback cancelled with stop_all() or stop_animations_for_target()
\* during Animator.update() are not on the active list when that update()
\* returns, and none of them is advanced afterwards.
C34_ReentrantCancel ==
    /\ DOMAIN stopObs.snap \cap Range(animations) = {}
    /\ stopObs.touched = {}

\* C35: an animation of positive duration created by a completion callback
\* during Animator.update() is never lost: unless it was cancelled, it is on the
\* active list until it completes, and its callback has then fired exactly once.
C35_SpawnedNeverLost ==
    \A i \in 1..Len(anims) :
        (anims[i].bornInUpdate /\ i \notin DOMAIN stopObs.snap) =>
            IF anims[i].is_complete
            THEN anims[i].on_complete = "count" => anims[i].cbCalls = 1
            ELSE i \in Range(animations)


\* the position of an entry in the log of the first update() on the root
LogIndex(e) == CHOOSE i \in 1..Len(layout.log) : layout.log[i] = e

\* C36: in a tree of nested layout containers, during the first update() pass on
\* the root a container's layout_children runs before the mount hook of each of
\* its descendants, and the nested container has laid out its children from the
\* position and size its parent's layout assigned to it.
C36_ParentLayoutFirst ==
    (layout.kind # "none" /\ layout.mounted) =>
        /\ \A i \in 1..Len(layout.log) :
              (layout.log[i][1] = "component_did_mount" /\ layout.log[i][2] # <<0>>)
                  => LogIndex(<<"layout_children", <<0>>>>) < i
        /\ <<"layout_children", <<layout.slot>>>> \in Range(layout.log) =>
              /\ \A j \in 1..Len(layout.inner.children) :
                    LogIndex(<<"layout_children", <<layout.slot>>>>)
                        < LogIndex(<<"component_did_mount", <<layout.slot, j>>>>)
              /\ Whole(layout.inner.x) = layout.children[layout.slot].x
              /\ Whole(layout.inner.y) = layout.children[layout.slot].y
              /\ layout.inner.height = layout.children[layout.slot].height
              /\ layout.inner.children = RowLayoutChildren(layout.inner)

\* a Row with two children, the second a nested Row that its parent stretched and
\* moved away from the origin, was updated from the root: the nested Row's children
\* are centred in the stretched height at the assigned position
C36_Witness ==
    /\ layout.kind = "row" /\ layout.mounted /\ layout.align_items = "stretch"
    /\ layout.slot = 2 /\ Len(layout.children) = 2
    /\ <<"layout_children", <<2>>>> \in Range(layout.log)
    /\ layout.inner.align_items = "center" /\ Len(layout.inner.children) = 2
    /\ layout.inner.x > 3 /\ layout.inner.height = 10
    /\ layout.inner.children[1].x = Whole(layout.inner.x)
    /\ layout.inner.children[1].y = Whole(layout.inner.y + 3)

\* C37: after any sequence of handled events a key is reported pressed exactly
\* when its most recent key event was key_down, a button 1..3 exactly when its
\* most recent button event was mouse_down, a button event with a number outside
\* 1..3 changes none of the three flags, and the reported cursor position is the
\* one of the most recent mouse_move, (0, 0) at first.
C37_TrackedInput ==
    lastCall.op = "handle_event" =>
        /\ \A k \in KeyCodes : (k \in em.keys_pressed) <=> (lastCall.keys[k] = "down")
        /\ \A b \in 1..3 : em.mouse_buttons[b] <=> (lastCall.buttons[b] = "down")
        /\ (em.event.type \in {"MOUSEBUTTONDOWN", "MOUSEBUTTONUP"}
              /\ em.event.button \notin 1..3) => em.mouse_buttons = lastCall.before
        /\ em.mouse_position = lastCall.moved

\* x <= y on floats
FLessEq(x, y) == FLess[x, y] \/ FEq[x, y]

\* C38: the value written by the completing update() is exactly end_value, and
\* with linear easing and a non-decreasing clock the written values move
\* monotonically from start_value to end_value.
C38_WrittenValues ==
    easeCall.op = "update" =>
        LET a == Eval(easeCall.start_value, FromInt[0])
            b == Eval(easeCall.end_value, FromInt[0])
            w == easeCall.written
        IN /\ easeCall.is_complete => w[Len(w)] = b
           /\ easeCall.easing = "linear" =>
                 \A i \in 1..Len(w) :
                    IF FLessEq(a, b)
                    THEN /\ FLessEq(a, w[i]) /\ FLessEq(w[i], b)
                         /\ i > 1 => FLessEq(w[i - 1], w[i])
                    ELSE /\ FLessEq(b, w[i]) /\ FLessEq(w[i], a)
                         /\ i > 1 => FLessEq(w[i], w[i - 1])

\* C39: Animator.update() never raises, for animations registered with any
\* duration >= 0: after an update() every animation of duration 0 that was on
\* the list is complete, its end_value written and its callback fired once.
C39_UpdateNeverRaises ==
    /\ animCall # "update raised"
    /\ animCall = "update" =>
          \A i \in 1..Len(anims) :
              anims[i].duration = 0 =>
                  /\ anims[i].is_complete /\ i \notin Range(animations)
                  /\ anims[i].on_complete = "count" => anims[i].cbCalls = 1

\* C40: Transition.shake runs four x-animations, each created when the one
\* before it completes, at most one of them active at a time; on_complete fires
\* exactly once, after the fourth has completed, and the target's x then equals
\* the x it had when shake was called.
C40_ShakeReturns ==
    easeCall.op \in {"shake", "update"} =>
        /\ easeCall.active <= 1 /\ easeCall.created <= 4
        /\ easeCall.created = (IF easeCall.step = 5 THEN 4 ELSE easeCall.step)
        /\ easeCall.cbCalls = (IF easeCall.step = 5 THEN 1 ELSE 0)
        /\ easeCall.step = 5 => easeCall.x = easeCall.original_x

====
